---- MODULE Spec2Model ----
(***************************************************************************)
(* Secret-reference resolution and the runtime snapshot lifecycle of       *)
(* secrets/runtime (src/unnamed/part_000), with the auth-storage discovery *)
(* of src/src/agents/pi-model-discovery.ts.                                *)
(*                                                                         *)
(* JavaScript objects live in `heap` (address -> object), so that          *)
(* structuredClone, aliasing and in-place writes are what they are in the  *)
(* code.  JavaScript strings are sequences of one-character strings, so    *)
(* that String.prototype.trim is computed and not assumed.                 *)
(***************************************************************************)
EXTENDS Integers, Sequences, FiniteSets, TLC

VARIABLES
  heap,                      \* address -> object
  context,                   \* ResolverContext of each pass (part_000:33-37)
  decryptCalls,              \* per context: invocations of decryptSopsJsonFile
  calls,                     \* resolveSecretRefValue calls in flight on context 1
  pass,                      \* prepareSecretsRuntimeSnapshot invocations
  loaderCalls,               \* per pass: directories handed to loadAuthStore
  activeSnapshot,            \* part_000:62
  runtimeConfigSnapshot,     \* process-wide config state
  runtimeAuthStoreSnapshots, \* process-wide auth-store state
  held,                      \* getActive results the caller has kept
  lastGet,                   \* what the last getActiveSecretsRuntimeSnapshot returned
  lastActivated,             \* deep value of the argument of the last activate
  discovery                  \* discoverAuthStorage run

vars == <<heap, context, decryptCalls, calls, pass, loaderCalls, activeSnapshot,
          runtimeConfigSnapshot, runtimeAuthStoreSnapshots, held, lastGet,
          lastActivated, discovery>>

-----------------------------------------------------------------------------
(* Bounds *)

NumPasses == 2
MaxHeld == 1
MaxCalls == 2

Passes == 1..NumPasses

-----------------------------------------------------------------------------
(* JavaScript values *)

Undefined == [t |-> "undefined"]
Null == [t |-> "null"]
Str(s) == [t |-> "string", s |-> s]
Num(n) == [t |-> "number", n |-> n]
SecretRef(source, id) == [t |-> "object", source |-> source, id |-> id]
PlainObject == [t |-> "object", client_email |-> <<"m">>]

\* String.prototype.trim on a sequence of characters
RECURSIVE trimStart(_)
trimStart(s) ==
  IF s # <<>> /\ Head(s) = " " THEN trimStart(Tail(s)) ELSE s

RECURSIVE trimEnd(_)
trimEnd(s) ==
  IF s # <<>> /\ s[Len(s)] = " " THEN trimEnd(SubSeq(s, 1, Len(s) - 1)) ELSE s

trim(s) == trimEnd(trimStart(s))

isNonEmptyStringUntrimmed(value) ==
  value.t = "string" /\ Len(value.s) > 0

isNonEmptyString(value) ==
  value.t = "string" /\ Len(trim(value.s)) > 0

isRecord(value) == value.t = "object"

\* config/types.secrets.js: a SecretRef is {source: "env" | "file", id: string}
isSecretRef(value) ==
  /\ value.t = "object"
  /\ DOMAIN value = {"t", "source", "id"}
  /\ value.source \in {"env", "file"}

-----------------------------------------------------------------------------
(* The world a pass reads: environment, decrypted payload *)

\* process.env: K holds a padded value, W whitespace only, E the empty string
Env == [x \in {<<"K">>, <<"W">>, <<"E">>} |->
          CASE x = <<"K">> -> <<" ", "v">>
            [] x = <<"W">> -> <<" ">>
            [] x = <<"E">> -> <<>>]

envLookup(env, id) == IF id \in DOMAIN env THEN Str(env[id]) ELSE Undefined

\* the JSON document sops decrypts: pointer -> value
Payload == [x \in {<<"K">>, <<"W">>, <<"E">>, <<"N">>} |->
              CASE x = <<"K">> -> Str(<<"f", " ">>)
                [] x = <<"W">> -> Str(<<" ">>)
                [] x = <<"E">> -> Str(<<>>)
                [] x = <<"N">> -> Num(7)]

Thrown(err) == [k |-> "throw", err |-> err]
Value(v) == [k |-> "value", v |-> v]
Awaiting == [k |-> "await"]
NoResult == [k |-> "none"]

\* secrets/json-pointer.js, onMissing: "throw"
readJsonPointer(payload, id) ==
  IF id \in DOMAIN payload THEN Value(payload[id]) ELSE Thrown("MissingSecret")

-----------------------------------------------------------------------------
(* resolveSecretRefValue and the single-flight decrypt *)

NoPromise == [state |-> "null"]
Pending == [state |-> "pending"]
Fulfilled(payload) == [state |-> "fulfilled", payload |-> payload]
Rejected(err) == [state |-> "rejected", err |-> err]

decryptSopsFileEager(config) ==
  LET fileSource == config.secretsSourcesFile IN
  IF fileSource.t = "undefined"
    THEN [promise |-> Rejected("NotConfigured"), invoked |-> 1]
  ELSE IF fileSource.type # "sops"
    THEN [promise |-> Rejected("UnsupportedSourceType"), invoked |-> 1]
  ELSE [promise |-> Pending, invoked |-> 1]

\* decryptSopsFile up to its await: the promise it returns, and whether the
\* external decryptSopsJsonFile was invoked
decryptSopsFile(config) ==
  LET fileSource == config.secretsSourcesFile IN
  IF fileSource.t = "undefined"
    THEN [promise |-> Rejected("NotConfigured"), invoked |-> 0]
  ELSE IF fileSource.type # "sops"
    THEN [promise |-> Rejected("UnsupportedSourceType"), invoked |-> 0]
  ELSE [promise |-> Pending, invoked |-> 1]

ensureFileSecretsPromiseAlways(ctx, config) ==
  LET d == decryptSopsFile(config) IN
  [context |-> [ctx EXCEPT !.fileSecretsPromise = d.promise], invoked |-> d.invoked]

\* context.fileSecretsPromise ??= decryptSopsFile(context.config)
ensureFileSecretsPromise(ctx, config) ==
  IF ctx.fileSecretsPromise.state = "null"
    THEN LET d == decryptSopsFile(config) IN
         [context |-> [ctx EXCEPT !.fileSecretsPromise = d.promise],
          invoked |-> d.invoked]
    ELSE [context |-> ctx, invoked |-> 0]

resolveSecretRefValueEnterTrimsValue(ref, ctx, config) ==
  LET id == trim(ref.id) IN
  IF id = <<>> THEN
    [context |-> ctx, invoked |-> 0, envRead |-> FALSE,
     out |-> Thrown("InvalidReference")]
  ELSE IF ref.source = "env" THEN
    LET envValue == envLookup(ctx.env, id) IN
    [context |-> ctx, invoked |-> 0, envRead |-> TRUE,
     out |-> IF ~isNonEmptyString(envValue) THEN Thrown("MissingSecret")
             ELSE Value(Str(trim(envValue.s)))]
  ELSE IF ref.source = "file" THEN
    LET e == ensureFileSecretsPromise(ctx, config) IN
    [context |-> e.context, invoked |-> e.invoked, envRead |-> FALSE,
     out |-> Awaiting]
  ELSE [context |-> ctx, invoked |-> 0, envRead |-> FALSE,
        out |-> Thrown("UnsupportedSource")]

resolveSecretRefValueEnterDefaultsToEnv(ref, ctx, config) ==
  LET id == trim(ref.id) IN
  IF id = <<>> THEN
    [context |-> ctx, invoked |-> 0, envRead |-> FALSE,
     out |-> Thrown("InvalidReference")]
  ELSE IF ref.source = "file" THEN
    LET e == ensureFileSecretsPromise(ctx, config) IN
    [context |-> e.context, invoked |-> e.invoked, envRead |-> FALSE,
     out |-> Awaiting]
  ELSE
    LET envValue == envLookup(ctx.env, id) IN
    [context |-> ctx, invoked |-> 0, envRead |-> TRUE,
     out |-> IF ~isNonEmptyString(envValue) THEN Thrown("MissingSecret")
             ELSE Value(envValue)]

resolveSecretRefValueEnterChecksIdLate(ref, ctx, config) ==
  LET id == trim(ref.id) IN
  IF ref.source = "file" THEN
    LET e == ensureFileSecretsPromise(ctx, config) IN
    [context |-> e.context, invoked |-> e.invoked, envRead |-> FALSE,
     out |-> IF id = <<>> THEN Thrown("InvalidReference") ELSE Awaiting]
  ELSE IF id = <<>> THEN
    [context |-> ctx, invoked |-> 0, envRead |-> FALSE,
     out |-> Thrown("InvalidReference")]
  ELSE IF ref.source = "env" THEN
    LET envValue == envLookup(ctx.env, id) IN
    [context |-> ctx, invoked |-> 0, envRead |-> TRUE,
     out |-> IF ~isNonEmptyString(envValue) THEN Thrown("MissingSecret")
             ELSE Value(envValue)]
  ELSE [context |-> ctx, invoked |-> 0, envRead |-> FALSE,
        out |-> Thrown("UnsupportedSource")]

\* resolveSecretRefValue from its entry to its return, throw or await
resolveSecretRefValueEnter(ref, ctx, config) ==
  LET id == trim(ref.id) IN
  IF id = <<>> THEN
    [context |-> ctx, invoked |-> 0, envRead |-> FALSE,
     out |-> Thrown("InvalidReference")]
  ELSE IF ref.source = "env" THEN
    LET envValue == envLookup(ctx.env, id) IN
    [context |-> ctx, invoked |-> 0, envRead |-> TRUE,
     out |-> IF ~isNonEmptyString(envValue) THEN Thrown("MissingSecret")
             ELSE Value(envValue)]
  ELSE IF ref.source = "file" THEN
    LET e == ensureFileSecretsPromise(ctx, config) IN
    [context |-> e.context, invoked |-> e.invoked, envRead |-> FALSE,
     out |-> Awaiting]
  ELSE [context |-> ctx, invoked |-> 0, envRead |-> FALSE,
        out |-> Thrown("UnsupportedSource")]

\* resolveSecretRefValue after `await context.fileSecretsPromise` settles
resolveSecretRefValueResume(ref, ctx) ==
  IF ctx.fileSecretsPromise.state = "rejected"
    THEN Thrown(ctx.fileSecretsPromise.err)
    ELSE readJsonPointer(ctx.fileSecretsPromise.payload, trim(ref.id))

-----------------------------------------------------------------------------
(* Objects: the heap, structuredClone *)

NoAddr == 0

\* the caller's configuration object and the objects the auth-store loader
\* returns stay where they are; every other object is allocated
ConfigAddr == 1
StoreAddr(d) == 1 + d

\* where new objects are placed: those of pass p from PassBase(p) on, the
\* copy activate makes from ActiveBase on, the copies getActive makes from
\* CloneBase on
PassBase(p) == 16 * p
ActiveBase == 16 * (NumPasses + 1)
CloneBase(r) == 16 * (NumPasses + 1 + r)

\* the first address from base on that holds no object
RECURSIVE fresh(_, _)
fresh(h, base) == IF base \in DOMAIN h THEN fresh(h, base + 1) ELSE base

alloc(h, object, base) ==
  LET a == fresh(h, base) IN [heap |-> h @@ (a :> object), addr |-> a]

structuredCloneAlias(h, a, base) == [heap |-> h, addr |-> a]

\* structuredClone of a configuration or a store: a new object, equal value
structuredClone(h, a, base) == alloc(h, h[a], base)

ConfigObject(v) == [kind |-> "config", v |-> v]
StoreObject(v) == [kind |-> "store", v |-> v]
ArrayObject(v) == [kind |-> "array", v |-> v]
SnapshotObject(sourceConfig, config, authStores, warnings) ==
  [kind |-> "snapshot", sourceConfig |-> sourceConfig, config |-> config,
   authStores |-> authStores, warnings |-> warnings]

\* the addresses an object refers to
refsOf(object) ==
  CASE object.kind = "snapshot" ->
         {object.sourceConfig, object.config, object.authStores, object.warnings}
    [] object.kind = "array" ->
         {object.v[n].store : n \in {m \in 1..Len(object.v) : "store" \in DOMAIN object.v[m]}}
    [] OTHER -> {}

RECURSIVE reachable(_, _)
reachable(h, as) ==
  LET next == as \cup UNION {refsOf(h[a]) : a \in as \cap DOMAIN h} IN
  IF next = as THEN as ELSE reachable(h, next)

\* the value of an object with everything it refers to, addresses left out
RECURSIVE deepSeq(_, _)
deepSeq(h, entries) ==
  IF entries = <<>> THEN <<>>
  ELSE <<[agentDir |-> Head(entries).agentDir, store |-> h[Head(entries).store].v]>>
         \o deepSeq(h, Tail(entries))

deepSnapshot(h, a) ==
  [sourceConfig |-> h[h[a].sourceConfig].v,
   config |-> h[h[a].config].v,
   authStores |-> deepSeq(h, h[h[a].authStores].v),
   warnings |-> h[h[a].warnings].v]

-----------------------------------------------------------------------------
(* Configuration and auth-profile stores *)

Provider(id, apiKey) == [id |-> id, apiKey |-> apiKey, baseUrl |-> Str(<<"u">>)]

GoogleChatAccount(serviceAccount, serviceAccountRef) ==
  [t |-> "object", serviceAccount |-> serviceAccount,
   serviceAccountRef |-> serviceAccountRef]

Accounts(entries) == [t |-> "object", entries |-> entries]

GoogleChat(serviceAccount, serviceAccountRef, accounts) ==
  [t |-> "object", serviceAccount |-> serviceAccount,
   serviceAccountRef |-> serviceAccountRef, accounts |-> accounts]

FileSource(type) == [t |-> "object", type |-> type]

Config(providers, googlechat, fileSource, agents) ==
  [modelsProviders |-> providers,
   channelsGooglechat |-> googlechat,
   secretsSourcesFile |-> fileSource,
   agentsList |-> agents,
   gatewayAuthToken |-> SecretRef("env", <<"K">>)]

ApiKeyProfile(id, key, keyRef) ==
  [id |-> id, type |-> "api_key", provider |-> "openrouter",
   key |-> key, keyRef |-> keyRef]

TokenProfile(id, token, tokenRef) ==
  [id |-> id, type |-> "token", provider |-> "anthropic",
   token |-> token, tokenRef |-> tokenRef, expires |-> Undefined]

OAuthProfile(id, access, keyRef) ==
  [id |-> id, type |-> "oauth", provider |-> "openai-codex",
   access |-> access, refresh |-> Str(<<"r">>), expires |-> Num(1),
   keyRef |-> keyRef]

Store(profiles) == [version |-> 1, profiles |-> profiles]

Warning(path) == [code |-> "SECRETS_REF_OVERRIDES_PLAINTEXT", path |-> path]

\* utils.js resolveUserPath: "~/a" and "/a" name the same directory
resolveUserPath(path) == IF path = "~/a" THEN "/a" ELSE path

CanonDirs == <<"/a", "/b">>

dirIndex(dir) == CHOOSE d \in 1..Len(CanonDirs) : CanonDirs[d] = dir

\* agents/agent-paths.js, agents/agent-scope.js
resolveOpenClawAgentDir == "~/a"
listAgentIds(config) == config.agentsList
resolveAgentDir(config, agentId) == IF agentId = "main" THEN "/a" ELSE "/b"

\* [...new Set(seq)]: first occurrences, in order
RECURSIVE uniqueInOrder(_, _)
uniqueInOrder(seq, seen) ==
  IF seq = <<>> THEN <<>>
  ELSE IF Head(seq) \in seen THEN uniqueInOrder(Tail(seq), seen)
  ELSE <<Head(seq)>> \o uniqueInOrder(Tail(seq), seen \cup {Head(seq)})

mapSeq(seq, Op(_)) == [n \in 1..Len(seq) |-> Op(seq[n])]

collectCandidateAgentDirs(config) ==
  LET agentDirOf(agentId) == resolveUserPath(resolveAgentDir(config, agentId)) IN
  uniqueInOrder(<<resolveUserPath(resolveOpenClawAgentDir)>>
                  \o mapSeq(listAgentIds(config), agentDirOf), {})

NoAgentDirs == [t |-> "undefined"]
AgentDirs(list) == [t |-> "array", list |-> list]

\* params.agentDirs?.length ? [...new Set(...)] : collectCandidateAgentDirs(...)
candidateDirsOf(agentDirs, resolvedConfig) ==
  IF agentDirs.t = "array" /\ Len(agentDirs.list) # 0
    THEN uniqueInOrder(mapSeq(agentDirs.list, resolveUserPath), {})
    ELSE collectCandidateAgentDirs(resolvedConfig)

-----------------------------------------------------------------------------
(* The walkers: which reference a site holds, what a resolved value does *)

NoRef == Null

Site(ref, warn) == [ref |-> ref, warn |-> warn]

\* resolveConfigSecretRefs, one provider entry up to its await
providerSite(provider) ==
  Site(IF isSecretRef(provider.apiKey) THEN provider.apiKey ELSE NoRef, <<>>)

resolveGoogleChatServiceAccountInlineFirst(target, path) ==
  LET explicitRef ==
        IF isSecretRef(target.serviceAccountRef) THEN target.serviceAccountRef ELSE NoRef
      inlineRef ==
        IF isSecretRef(target.serviceAccount) THEN target.serviceAccount ELSE NoRef
      ref == IF inlineRef # NoRef THEN inlineRef ELSE explicitRef
  IN  IF ref = NoRef THEN Site(NoRef, <<>>)
      ELSE Site(ref,
                IF /\ explicitRef # NoRef
                   /\ target.serviceAccount # Undefined
                   /\ ~isSecretRef(target.serviceAccount)
                  THEN <<Warning(path)>> ELSE <<>>)

\* resolveGoogleChatServiceAccount up to its await
resolveGoogleChatServiceAccount(target, path) ==
  LET explicitRef ==
        IF isSecretRef(target.serviceAccountRef) THEN target.serviceAccountRef ELSE NoRef
      inlineRef ==
        IF isSecretRef(target.serviceAccount) THEN target.serviceAccount ELSE NoRef
      ref == IF explicitRef # NoRef THEN explicitRef ELSE inlineRef
  IN  IF ref = NoRef THEN Site(NoRef, <<>>)
      ELSE Site(ref,
                IF /\ explicitRef # NoRef
                   /\ target.serviceAccount # Undefined
                   /\ ~isSecretRef(target.serviceAccount)
                  THEN <<Warning(path)>> ELSE <<>>)

accountSite(entry) ==
  IF ~isRecord(entry.account) THEN Site(NoRef, <<>>)
  ELSE resolveGoogleChatServiceAccount(
         entry.account, <<"channels.googlechat.accounts", entry.id>>)

profileSiteSilent(profile, agentDir) ==
  IF profile.type = "api_key" THEN
    Site(IF isSecretRef(profile.keyRef) THEN profile.keyRef ELSE NoRef, <<>>)
  ELSE IF profile.type = "token" THEN
    Site(IF isSecretRef(profile.tokenRef) THEN profile.tokenRef ELSE NoRef, <<>>)
  ELSE Site(NoRef, <<>>)

profileSiteInlineToo(profile, agentDir) ==
  IF profile.type = "api_key" THEN
    LET keyRef == IF isSecretRef(profile.keyRef) THEN profile.keyRef
                  ELSE IF isSecretRef(profile.key) THEN profile.key ELSE NoRef IN
    Site(keyRef,
         IF isSecretRef(profile.keyRef) /\ isNonEmptyString(profile.key)
           THEN <<Warning(<<agentDir, "auth-profiles", profile.id, "key">>)>>
           ELSE <<>>)
  ELSE IF profile.type = "token" THEN
    LET tokenRef == IF isSecretRef(profile.tokenRef) THEN profile.tokenRef
                    ELSE IF isSecretRef(profile.token) THEN profile.token ELSE NoRef IN
    Site(tokenRef,
         IF isSecretRef(profile.tokenRef) /\ isNonEmptyString(profile.token)
           THEN <<Warning(<<agentDir, "auth-profiles", profile.id, "token">>)>>
           ELSE <<>>)
  ELSE Site(NoRef, <<>>)

\* resolveAuthStoreSecretRefs, one profile up to its await
profileSite(profile, agentDir) ==
  IF profile.type = "api_key" THEN
    LET keyRef == IF isSecretRef(profile.keyRef) THEN profile.keyRef ELSE NoRef IN
    Site(keyRef,
         IF keyRef # NoRef /\ isNonEmptyString(profile.key)
           THEN <<Warning(<<agentDir, "auth-profiles", profile.id, "key">>)>>
           ELSE <<>>)
  ELSE IF profile.type = "token" THEN
    LET tokenRef == IF isSecretRef(profile.tokenRef) THEN profile.tokenRef ELSE NoRef IN
    Site(tokenRef,
         IF tokenRef # NoRef /\ isNonEmptyString(profile.token)
           THEN <<Warning(<<agentDir, "auth-profiles", profile.id, "token">>)>>
           ELSE <<>>)
  ELSE Site(NoRef, <<>>)

Ok(v) == [k |-> "ok", v |-> v]

assignProviderApiKeyDeep(config, i, resolvedValue) ==
  IF ~isNonEmptyString(resolvedValue) THEN Thrown("InvalidResolvedValue")
  ELSE Ok([config EXCEPT !.modelsProviders[i].apiKey = resolvedValue,
                         !.gatewayAuthToken = resolvedValue])

\* provider.apiKey = resolvedValue, after its check
assignProviderApiKey(config, i, resolvedValue) ==
  IF ~isNonEmptyString(resolvedValue) THEN Thrown("InvalidResolvedValue")
  ELSE Ok([config EXCEPT !.modelsProviders[i].apiKey = resolvedValue])

\* target.serviceAccount = await resolveSecretRefValue(ref, context)
assignServiceAccount(config, resolvedValue) ==
  Ok([config EXCEPT !.channelsGooglechat.serviceAccount = resolvedValue])

assignAccountServiceAccount(config, i, resolvedValue) ==
  Ok([config EXCEPT
        !.channelsGooglechat.accounts.entries[i].account.serviceAccount = resolvedValue])

\* apiProfile.key = resolvedValue / tokenProfile.token = resolvedValue
assignProfileCredential(store, i, resolvedValue) ==
  IF ~isNonEmptyString(resolvedValue) THEN Thrown("EmptyResolvedCredential")
  ELSE IF store.profiles[i].type = "api_key"
    THEN Ok([store EXCEPT !.profiles[i].key = resolvedValue])
    ELSE Ok([store EXCEPT !.profiles[i].token = resolvedValue])

positionChatFirst(pc, i, config) ==
  LET chat == config.channelsGooglechat
      toProviders(n) == IF n <= Len(config.modelsProviders)
                          THEN [pc |-> "providers", i |-> n]
                          ELSE [pc |-> "dirs", i |-> 1] IN
  CASE pc = "providers" /\ i = 1 ->
         IF chat = Undefined THEN toProviders(1) ELSE [pc |-> "googlechat", i |-> 1]
    [] pc = "providers" /\ i > 1 -> toProviders(i)
    [] pc = "googlechat" -> [pc |-> pc, i |-> 1]
    [] pc = "accounts" ->
         IF isRecord(chat.accounts) /\ i <= Len(chat.accounts.entries)
           THEN [pc |-> pc, i |-> i]
           ELSE toProviders(1)

\* where the config walk stands once entry i of a phase is reached
RECURSIVE position(_, _, _)
position(pc, i, config) ==
  CASE pc = "providers" ->
         IF i <= Len(config.modelsProviders) THEN [pc |-> pc, i |-> i]
         ELSE position("googlechat", 1, config)
    [] pc = "googlechat" ->
         IF config.channelsGooglechat = Undefined THEN [pc |-> "dirs", i |-> 1]
         ELSE [pc |-> pc, i |-> 1]
    [] pc = "accounts" ->
         IF /\ isRecord(config.channelsGooglechat.accounts)
            /\ i <= Len(config.channelsGooglechat.accounts.entries)
           THEN [pc |-> pc, i |-> i]
           ELSE [pc |-> "dirs", i |-> 1]

-----------------------------------------------------------------------------
(* prepareSecretsRuntimeSnapshot, one step per site and per await *)

Params(config, env, agentDirs) ==
  [config |-> config, env |-> env, agentDirs |-> agentDirs]

IdlePass(params) ==
  [pc |-> "idle", i |-> 1, k |-> 1, awaiting |-> FALSE, ref |-> NoRef,
   params |-> params, resolved |-> NoAddr, candidateDirs |-> <<>>,
   resolvedStore |-> NoAddr, authStores |-> <<>>, warnings |-> <<>>,
   error |-> "none", result |-> NoAddr, returned |-> Null, log |-> <<>>]

NoContext == [config |-> NoAddr, env |-> <<>>, fileSecretsPromise |-> NoPromise]

ResolverContext(params) ==
  [config |-> params.config, env |-> params.env, fileSecretsPromise |-> NoPromise]

roots(passes, hd, act, rcs, ras, lg) ==
  {ConfigAddr} \cup {StoreAddr(d) : d \in 1..Len(CanonDirs)}
    \cup UNION {{passes[p].resolved, passes[p].resolvedStore, passes[p].result}
                  \cup {passes[p].authStores[n].store :
                          n \in 1..Len(passes[p].authStores)} : p \in Passes}
    \cup {hd[j] : j \in DOMAIN hd} \cup {act, lg, rcs.config, rcs.sourceConfig, ras}

collect(h, rs) ==
  LET keep == reachable(h, rs) \cap DOMAIN h IN [a \in keep |-> h[a]]

rootsNext ==
  roots(pass', held', activeSnapshot', runtimeConfigSnapshot',
        runtimeAuthStoreSnapshots', lastGet')

currentDir(ps) == ps.candidateDirs[ps.k]

siteAt(ps, h) ==
  CASE ps.pc = "providers" -> providerSite(h[ps.resolved].v.modelsProviders[ps.i])
    [] ps.pc = "googlechat" ->
         resolveGoogleChatServiceAccount(h[ps.resolved].v.channelsGooglechat,
                                         <<"channels.googlechat">>)
    [] ps.pc = "accounts" ->
         accountSite(h[ps.resolved].v.channelsGooglechat.accounts.entries[ps.i])
    [] ps.pc = "profiles" ->
         profileSite(h[ps.resolvedStore].v.profiles[ps.i], currentDir(ps))

\* the write of a resolved value at the site the pass stands at
assignResolved(ps, h, resolvedValue) ==
  LET r == CASE ps.pc = "providers" ->
                  assignProviderApiKey(h[ps.resolved].v, ps.i, resolvedValue)
             [] ps.pc = "googlechat" ->
                  assignServiceAccount(h[ps.resolved].v, resolvedValue)
             [] ps.pc = "accounts" ->
                  assignAccountServiceAccount(h[ps.resolved].v, ps.i, resolvedValue)
             [] ps.pc = "profiles" ->
                  assignProfileCredential(h[ps.resolvedStore].v, ps.i, resolvedValue)
      target == IF ps.pc = "profiles" THEN ps.resolvedStore ELSE ps.resolved
  IN  IF r.k = "throw" THEN r ELSE Ok([h EXCEPT ![target].v = r.v])

\* the loop moves on to the next entry
advance(ps, h) ==
  LET at == CASE ps.pc = "providers" ->
                   position("providers", ps.i + 1, h[ps.resolved].v)
              [] ps.pc = "googlechat" -> position("accounts", 1, h[ps.resolved].v)
              [] ps.pc = "accounts" ->
                   position("accounts", ps.i + 1, h[ps.resolved].v)
              [] ps.pc = "profiles" ->
                   IF ps.i + 1 <= Len(h[ps.resolvedStore].v.profiles)
                     THEN [pc |-> "profiles", i |-> ps.i + 1]
                     ELSE [pc |-> "push", i |-> 1]
  IN  [ps EXCEPT !.pc = at.pc, !.i = at.i, !.awaiting = FALSE, !.ref = NoRef]

failSwallowed(ps, err) == [advance(ps, heap) EXCEPT !.error = err]

\* a throw leaves prepareSecretsRuntimeSnapshot: nothing catches it
fail(ps, err) ==
  [ps EXCEPT !.pc = "failed", !.error = err, !.awaiting = FALSE, !.ref = NoRef,
             !.resolved = NoAddr, !.resolvedStore = NoAddr, !.authStores = <<>>]

\* resolveSecretRefValue has returned or thrown at the site of pass p
complete(p, ps, out) ==
  IF out.k = "throw" THEN
    /\ pass' = [pass EXCEPT ![p] = fail(ps, out.err)]
    /\ heap' = collect(heap, rootsNext)
  ELSE
    LET a == assignResolved(ps, heap, out.v) IN
    IF a.k = "throw" THEN
      /\ pass' = [pass EXCEPT ![p] = fail(ps, a.err)]
      /\ heap' = collect(heap, rootsNext)
    ELSE
      /\ pass' = [pass EXCEPT ![p] = advance(ps, a.v)]
      /\ heap' = a.v

Event(e, ps) == [e |-> e, pc |-> ps.pc, i |-> ps.i, k |-> ps.k]

visit(p) ==
  LET site == siteAt(pass[p], heap)
      ps == [pass[p] EXCEPT !.warnings = @ \o site.warn] IN
  /\ UNCHANGED <<calls, loaderCalls, activeSnapshot, runtimeConfigSnapshot,
                 runtimeAuthStoreSnapshots, held, lastGet, lastActivated, discovery>>
  /\ IF site.ref = NoRef THEN
       /\ pass' = [pass EXCEPT ![p] = advance(ps, heap)]
       /\ UNCHANGED <<heap, context, decryptCalls>>
     ELSE
       LET r == resolveSecretRefValueEnter(site.ref, context[p],
                                           heap[context[p].config].v)
           entered == [ps EXCEPT !.log = Append(@, Event("resolve", ps))] IN
       /\ context' = [context EXCEPT ![p] = r.context]
       /\ decryptCalls' = [decryptCalls EXCEPT ![p] = @ + r.invoked]
       /\ IF r.out.k = "await" THEN
            /\ pass' = [pass EXCEPT ![p] =
                          [entered EXCEPT !.awaiting = TRUE, !.ref = site.ref]]
            /\ UNCHANGED heap
          ELSE complete(p, entered, r.out)

PrepareStart(p) ==
  /\ pass[p].pc = "idle"
  /\ LET ps == pass[p]
         c == structuredClone(heap, ps.params.config, PassBase(p))
         at == position("providers", 1, c.heap[c.addr].v) IN
     /\ pass' = [pass EXCEPT ![p] =
                   [ps EXCEPT !.resolved = c.addr, !.pc = at.pc, !.i = at.i]]
     /\ context' = [context EXCEPT ![p] = ResolverContext(ps.params)]
     /\ heap' = c.heap
  /\ UNCHANGED <<decryptCalls, calls, loaderCalls, activeSnapshot,
                 runtimeConfigSnapshot, runtimeAuthStoreSnapshots, held, lastGet,
                 lastActivated, discovery>>

VisitProvider(p) ==
  /\ pass[p].pc = "providers" /\ ~pass[p].awaiting
  /\ visit(p)

VisitGoogleChat(p) ==
  /\ pass[p].pc = "googlechat" /\ ~pass[p].awaiting
  /\ visit(p)

VisitAccount(p) ==
  /\ pass[p].pc = "accounts" /\ ~pass[p].awaiting
  /\ visit(p)

VisitProfile(p) ==
  /\ pass[p].pc = "profiles" /\ ~pass[p].awaiting
  /\ visit(p)

\* the external decrypt ends: with the payload, or with its own failure
DecryptSettle(p) ==
  /\ context[p].fileSecretsPromise.state = "pending"
  /\ \E outcome \in {Fulfilled(Payload), Rejected("DecryptFailed")} :
       context' = [context EXCEPT ![p].fileSecretsPromise = outcome]
  /\ UNCHANGED <<heap, decryptCalls, calls, pass, loaderCalls, activeSnapshot,
                 runtimeConfigSnapshot, runtimeAuthStoreSnapshots, held, lastGet,
                 lastActivated, discovery>>

Resume(p) ==
  /\ pass[p].awaiting
  /\ context[p].fileSecretsPromise.state \in {"fulfilled", "rejected"}
  /\ UNCHANGED <<context, decryptCalls, calls, loaderCalls, activeSnapshot,
                 runtimeConfigSnapshot, runtimeAuthStoreSnapshots, held, lastGet,
                 lastActivated, discovery>>
  /\ complete(p, pass[p], resolveSecretRefValueResume(pass[p].ref, context[p]))

CollectDirs(p) ==
  /\ pass[p].pc = "dirs"
  /\ LET ps == pass[p]
         dirs == candidateDirsOf(ps.params.agentDirs, heap[ps.resolved].v) IN
     pass' = [pass EXCEPT ![p] =
                [ps EXCEPT !.candidateDirs = dirs, !.k = 1,
                           !.pc = IF dirs = <<>> THEN "return" ELSE "load"]]
  /\ UNCHANGED <<heap, context, decryptCalls, calls, loaderCalls, activeSnapshot,
                 runtimeConfigSnapshot, runtimeAuthStoreSnapshots, held, lastGet,
                 lastActivated, discovery>>

\* loadAuthStore(agentDir) and the structuredClone that opens the store walk
LoadAuthStore(p) ==
  /\ pass[p].pc = "load"
  /\ LET ps == pass[p]
         agentDir == currentDir(ps)
         rawStore == StoreAddr(dirIndex(agentDir))
         c == structuredClone(heap, rawStore, PassBase(p)) IN
     /\ loaderCalls' = [loaderCalls EXCEPT ![p] = Append(@, agentDir)]
     /\ pass' = [pass EXCEPT ![p] =
                   [ps EXCEPT !.resolvedStore = c.addr, !.i = 1,
                              !.log = Append(@, Event("load", ps)),
                              !.pc = IF c.heap[c.addr].v.profiles = <<>>
                                       THEN "push" ELSE "profiles"]]
     /\ heap' = c.heap
  /\ UNCHANGED <<context, decryptCalls, calls, activeSnapshot,
                 runtimeConfigSnapshot, runtimeAuthStoreSnapshots, held, lastGet,
                 lastActivated, discovery>>

\* authStores.push({ agentDir, store: resolvedStore })
PushAuthStore(p) ==
  /\ pass[p].pc = "push"
  /\ LET ps == pass[p] IN
     pass' = [pass EXCEPT ![p] =
                [ps EXCEPT !.authStores =
                             Append(@, [agentDir |-> currentDir(ps),
                                        store |-> ps.resolvedStore]),
                           !.resolvedStore = NoAddr, !.k = ps.k + 1,
                           !.pc = IF ps.k + 1 <= Len(ps.candidateDirs)
                                    THEN "load" ELSE "return"]]
  /\ UNCHANGED <<heap, context, decryptCalls, calls, loaderCalls, activeSnapshot,
                 runtimeConfigSnapshot, runtimeAuthStoreSnapshots, held, lastGet,
                 lastActivated, discovery>>

PrepareReturnPublishes(p) ==
  /\ pass[p].pc = "return"
  /\ LET ps == pass[p]
         c == structuredClone(heap, ps.params.config, PassBase(p))
         s == alloc(c.heap, ArrayObject(ps.authStores), PassBase(p))
         w == alloc(s.heap, ArrayObject(ps.warnings), PassBase(p))
         r == alloc(w.heap, SnapshotObject(c.addr, ps.resolved, s.addr, w.addr),
                    PassBase(p)) IN
     /\ pass' = [pass EXCEPT ![p] =
                   [ps EXCEPT !.pc = "done", !.result = r.addr,
                              !.returned = deepSnapshot(r.heap, r.addr),
                              !.resolved = NoAddr, !.authStores = <<>>]]
     /\ runtimeConfigSnapshot' = [config |-> ps.resolved, sourceConfig |-> c.addr]
     /\ heap' = r.heap
  /\ UNCHANGED <<context, decryptCalls, calls, loaderCalls, activeSnapshot,
                 runtimeAuthStoreSnapshots, held, lastGet, lastActivated, discovery>>

\* return { sourceConfig: structuredClone(params.config), config, authStores, warnings }
PrepareReturn(p) ==
  /\ pass[p].pc = "return"
  /\ LET ps == pass[p]
         c == structuredClone(heap, ps.params.config, PassBase(p))
         s == alloc(c.heap, ArrayObject(ps.authStores), PassBase(p))
         w == alloc(s.heap, ArrayObject(ps.warnings), PassBase(p))
         r == alloc(w.heap, SnapshotObject(c.addr, ps.resolved, s.addr, w.addr),
                    PassBase(p)) IN
     /\ pass' = [pass EXCEPT ![p] =
                   [ps EXCEPT !.pc = "done", !.result = r.addr,
                              !.returned = deepSnapshot(r.heap, r.addr),
                              !.resolved = NoAddr, !.authStores = <<>>]]
     /\ heap' = r.heap
  /\ UNCHANGED <<context, decryptCalls, calls, loaderCalls, activeSnapshot,
                 runtimeConfigSnapshot, runtimeAuthStoreSnapshots, held, lastGet,
                 lastActivated, discovery>>

-----------------------------------------------------------------------------
(* resolveSecretRefValue called directly, several calls sharing context 1 *)

Call(ref) == [ref |-> ref, pc |-> "start", result |-> NoResult, envRead |-> FALSE]

CallEnter(n) ==
  /\ calls[n].pc = "start"
  /\ LET r == resolveSecretRefValueEnter(calls[n].ref, context[1],
                                         heap[context[1].config].v) IN
     /\ context' = [context EXCEPT ![1] = r.context]
     /\ decryptCalls' = [decryptCalls EXCEPT ![1] = @ + r.invoked]
     /\ calls' = [calls EXCEPT ![n] =
                    IF r.out.k = "await" THEN [@ EXCEPT !.pc = "await"]
                    ELSE [@ EXCEPT !.pc = "done", !.result = r.out,
                                   !.envRead = r.envRead]]
  /\ UNCHANGED <<heap, pass, loaderCalls, activeSnapshot, runtimeConfigSnapshot,
                 runtimeAuthStoreSnapshots, held, lastGet, lastActivated, discovery>>

CallResume(n) ==
  /\ calls[n].pc = "await"
  /\ context[1].fileSecretsPromise.state \in {"fulfilled", "rejected"}
  /\ calls' = [calls EXCEPT ![n] =
                 [@ EXCEPT !.pc = "done",
                           !.result = resolveSecretRefValueResume(calls[n].ref,
                                                                 context[1])]]
  /\ UNCHANGED <<heap, context, decryptCalls, pass, loaderCalls, activeSnapshot,
                 runtimeConfigSnapshot, runtimeAuthStoreSnapshots, held, lastGet,
                 lastActivated, discovery>>

-----------------------------------------------------------------------------
(* The active snapshot: activate, getActive, clear *)

RECURSIVE cloneEntries(_, _, _)
cloneEntries(h, entries, base) ==
  IF entries = <<>> THEN [heap |-> h, entries |-> <<>>]
  ELSE LET c == structuredClone(h, Head(entries).store, base)
           rest == cloneEntries(c.heap, Tail(entries), base) IN
       [heap |-> rest.heap,
        entries |-> <<[agentDir |-> Head(entries).agentDir, store |-> c.addr]>>
                      \o rest.entries]

cloneSnapshotShallow(h, a, base) == alloc(h, h[a], base)

cloneSnapshot(h, a, base) ==
  LET sc == structuredClone(h, h[a].sourceConfig, base)
      c == structuredClone(sc.heap, h[a].config, base)
      es == cloneEntries(c.heap, h[h[a].authStores].v, base)
      s == alloc(es.heap, ArrayObject(es.entries), base)
      w == alloc(s.heap, ArrayObject(h[h[a].warnings].v), base) IN
  alloc(w.heap, SnapshotObject(sc.addr, c.addr, s.addr, w.addr), base)

NoRuntimeConfig == [config |-> NoAddr, sourceConfig |-> NoAddr]

\* config/config.js setRuntimeConfigSnapshot(config, sourceConfig)
setRuntimeConfigSnapshot(config, sourceConfig) ==
  runtimeConfigSnapshot' = [config |-> config, sourceConfig |-> sourceConfig]

\* agents/auth-profiles.js replaceRuntimeAuthProfileStoreSnapshots(entries)
replaceRuntimeAuthProfileStoreSnapshots(entries) ==
  runtimeAuthStoreSnapshots' = entries

clearRuntimeConfigSnapshot == runtimeConfigSnapshot' = NoRuntimeConfig
clearRuntimeAuthProfileStoreSnapshots == runtimeAuthStoreSnapshots' = NoAddr

\* the snapshot objects the caller can reach: what prepare returned to it,
\* what getActive last returned and the earlier results it has kept
heldSnapshots ==
  ({pass[p].result : p \in Passes} \cup {held[j] : j \in DOMAIN held} \cup {lastGet})
    \ {NoAddr}

\* the objects of the snapshot being replaced are given up first, so that the
\* new copy is placed where the old one was
withoutActive ==
  collect(heap, roots(pass, held, NoAddr, NoRuntimeConfig, NoAddr, lastGet))

activateFirstWins(snapshot) ==
  IF activeSnapshot # NoAddr THEN
    UNCHANGED <<heap, activeSnapshot, runtimeConfigSnapshot,
                runtimeAuthStoreSnapshots, held, lastGet>>
  ELSE
    \E next \in {cloneSnapshot(withoutActive, snapshot, ActiveBase)} :
      /\ setRuntimeConfigSnapshot(next.heap[next.addr].config,
                                  next.heap[next.addr].sourceConfig)
      /\ replaceRuntimeAuthProfileStoreSnapshots(next.heap[next.addr].authStores)
      /\ activeSnapshot' = next.addr
      /\ UNCHANGED <<held, lastGet>>
      /\ heap' = collect(next.heap, rootsNext)

activateConfigOnly(snapshot) ==
  \E next \in {cloneSnapshot(withoutActive, snapshot, ActiveBase)} :
    /\ setRuntimeConfigSnapshot(next.heap[next.addr].config,
                                next.heap[next.addr].sourceConfig)
    /\ activeSnapshot' = next.addr
    /\ UNCHANGED <<runtimeAuthStoreSnapshots, held, lastGet>>
    /\ heap' = collect(next.heap, rootsNext)

activateSecretsRuntimeSnapshot(snapshot) ==
  \E next \in {cloneSnapshot(withoutActive, snapshot, ActiveBase)} :
    /\ setRuntimeConfigSnapshot(next.heap[next.addr].config,
                                next.heap[next.addr].sourceConfig)
    /\ replaceRuntimeAuthProfileStoreSnapshots(next.heap[next.addr].authStores)
    /\ activeSnapshot' = next.addr
    /\ UNCHANGED <<held, lastGet>>
    /\ heap' = collect(next.heap, rootsNext)

\* the variable that held the previous result is overwritten
withoutLastGet ==
  collect(heap, roots(pass, held, activeSnapshot, runtimeConfigSnapshot,
                      runtimeAuthStoreSnapshots, NoAddr))

\* the copy is laid out in the first region no kept result occupies
freeRegion(h) ==
  CHOOSE r \in 1..(MaxHeld + 1) :
    /\ \A a \in DOMAIN h : a < CloneBase(r) \/ a >= CloneBase(r + 1)
    /\ \A q \in 1..(r - 1) : \E a \in DOMAIN h : a >= CloneBase(q) /\ a < CloneBase(q + 1)

getActiveSecretsRuntimeSnapshot ==
  /\ UNCHANGED <<activeSnapshot, runtimeConfigSnapshot, runtimeAuthStoreSnapshots,
                 held>>
  /\ IF activeSnapshot # NoAddr THEN
       \E c \in {cloneSnapshot(withoutLastGet, activeSnapshot,
                                CloneBase(freeRegion(withoutLastGet)))} :
         /\ lastGet' = c.addr
         /\ heap' = collect(c.heap, rootsNext)
     ELSE
       /\ lastGet' = NoAddr
       /\ heap' = withoutLastGet

clearSecretsRuntimeSnapshotPartial ==
  /\ activeSnapshot' = NoAddr
  /\ clearRuntimeConfigSnapshot
  /\ UNCHANGED <<runtimeAuthStoreSnapshots, held, lastGet>>
  /\ heap' = collect(heap, rootsNext)

clearSecretsRuntimeSnapshot ==
  /\ activeSnapshot' = NoAddr
  /\ clearRuntimeConfigSnapshot
  /\ clearRuntimeAuthProfileStoreSnapshots
  /\ UNCHANGED <<held, lastGet>>
  /\ heap' = collect(heap, rootsNext)

Activate ==
  /\ \E snapshot \in heldSnapshots :
       /\ lastActivated' = deepSnapshot(heap, snapshot)
       /\ UNCHANGED <<context, decryptCalls, calls, pass, loaderCalls, discovery>>
       /\ activateSecretsRuntimeSnapshot(snapshot)

GetActive ==
  /\ UNCHANGED <<context, decryptCalls, calls, pass, loaderCalls, lastActivated,
                 discovery>>
  /\ getActiveSecretsRuntimeSnapshot

Clear ==
  /\ lastActivated' = Null
  /\ UNCHANGED <<context, decryptCalls, calls, pass, loaderCalls, discovery>>
  /\ clearSecretsRuntimeSnapshot

\* the caller keeps the object getActive last returned in its variable j
Keep ==
  /\ lastGet # NoAddr
  /\ \E j \in DOMAIN held :
       /\ held[j] # lastGet
       /\ held' = [held EXCEPT ![j] = lastGet]
       /\ UNCHANGED <<context, decryptCalls, calls, pass, loaderCalls, activeSnapshot,
                      runtimeConfigSnapshot, runtimeAuthStoreSnapshots, lastGet,
                      lastActivated, discovery>>
       /\ heap' = collect(heap, rootsNext)

\* the caller writes into an object it holds
mutated(object) ==
  CASE object.kind = "config" ->
         [object EXCEPT !.v.gatewayAuthToken = Str(<<"x">>)]
    [] object.kind = "store" -> [object EXCEPT !.v.version = 2]
    [] object.kind = "array" -> [object EXCEPT !.v = <<>>]
    [] object.kind = "snapshot" -> [object EXCEPT !.config = object.sourceConfig]

writeAll(h, targets) ==
  [a \in DOMAIN h |-> IF a \in targets THEN mutated(h[a]) ELSE h[a]]

\* every object reachable from the snapshot is written to
Mutate ==
  /\ \E snapshot \in heldSnapshots :
       \E written \in {writeAll(heap, reachable(heap, {snapshot}))} :
         /\ written # heap
         /\ UNCHANGED <<context, decryptCalls, calls, pass, loaderCalls, activeSnapshot,
                        runtimeConfigSnapshot, runtimeAuthStoreSnapshots, held, lastGet,
                        lastActivated, discovery>>
         /\ heap' = collect(written, rootsNext)

-----------------------------------------------------------------------------
(* Inputs *)

MaxProviders == 2
MaxAccounts == 1
MaxProfiles == 2
MaxAgentDirs == 2

SeqsUpTo(S, n) == UNION {[1..m -> S] : m \in 0..n}

EnvOk == SecretRef("env", <<" ", "K">>)
EnvMissing == SecretRef("env", <<"U">>)
EnvBlank == SecretRef("env", <<"W">>)
FileOk == SecretRef("file", <<"K", " ">>)
FileBad == SecretRef("file", <<"N">>)
FileMissing == SecretRef("file", <<"U">>)
Plain == Str(<<"p">>)

Sources == {"env", "file", "vault"}
Ids ==
  {<<>>, <<" ">>, <<"K">>, <<" ", "K">>, <<"K", " ">>, <<"W">>, <<"E">>, <<"U">>,
   <<"N">>}
Refs == {SecretRef(source, id) : source \in Sources, id \in Ids}

FileSources == {Undefined, FileSource("sops"), FileSource("age")}

ProviderIds == <<"acme", "beta", "corp">>
AccountIds == <<"a1", "a2">>
ProfileIds == <<"p1", "p2", "p3">>

providersOf(apiKeys) == [n \in 1..Len(apiKeys) |-> Provider(ProviderIds[n], apiKeys[n])]
accountsOf(accounts) ==
  Accounts([n \in 1..Len(accounts) |-> [id |-> AccountIds[n], account |-> accounts[n]]])
profilesOf(shapes) ==
  [n \in 1..Len(shapes) |->
     CASE shapes[n][1] = "api_key" -> ApiKeyProfile(ProfileIds[n], shapes[n][2], shapes[n][3])
       [] shapes[n][1] = "token" -> TokenProfile(ProfileIds[n], shapes[n][2], shapes[n][3])
       [] shapes[n][1] = "oauth" -> OAuthProfile(ProfileIds[n], shapes[n][2], shapes[n][3])]

ApiKeyChoices ==
  {Undefined, Plain, EnvOk, EnvMissing, EnvBlank, FileOk, FileBad, SecretRef("file", <<"W">>),
   FileMissing, SecretRef("vault", <<"K">>)}

ChatPrimaryChoices == {Undefined, Null, Str(<<>>), Plain, PlainObject, EnvOk, EnvMissing}
ChatRefChoices == {Undefined, Plain, EnvOk, EnvMissing, FileOk}
AccountChoices ==
  {Plain}
    \cup {GoogleChatAccount(sa, ref) :
            sa \in {Undefined, Plain, EnvOk}, ref \in {Undefined, EnvOk, FileMissing}}

ProfileChoices ==
  {<<"api_key", Plain, Undefined>>, <<"api_key", Plain, EnvOk>>,
   <<"api_key", Undefined, FileOk>>, <<"api_key", Str(<<" ">>), EnvOk>>,
   <<"api_key", Plain, EnvMissing>>, <<"api_key", EnvOk, Undefined>>,
   <<"api_key", Plain, FileBad>>, <<"token", Undefined, SecretRef("file", <<"W">>)>>,
   <<"token", Plain, Undefined>>, <<"token", Plain, FileOk>>,
   <<"token", Undefined, EnvOk>>, <<"token", EnvOk, Undefined>>,
   <<"oauth", Plain, EnvOk>>}

SimpleStore == Store(profilesOf(<<<<"api_key", Plain, EnvOk>>>>))
OtherStores ==
  {Store(<<>>), Store(profilesOf(<<<<"token", Plain, FileOk>>>>)),
   Store(profilesOf(<<<<"api_key", Undefined, EnvMissing>>>>))}

AgentDirNames == {"/a", "~/a", "/b"}
AgentIds == {<<>>, <<"main">>, <<"ops">>, <<"ops", "main">>}

\* the families of inputs a pass is run on: one part varied, the rest small
ProviderInputs ==
  {[config |-> Config(providersOf(keys), chat, file, <<>>),
    agentDirs |-> AgentDirs(<<"/a">>), storeA |-> SimpleStore, storeB |-> Store(<<>>)] :
     keys \in SeqsUpTo(ApiKeyChoices, MaxProviders),
     chat \in {Undefined, GoogleChat(Plain, EnvOk, Undefined)},
     file \in FileSources}

ChatInputs ==
  {[config |-> Config(providersOf(keys),
                      GoogleChat(sa, ref, accounts), FileSource("sops"), <<>>),
    agentDirs |-> AgentDirs(<<"/a">>), storeA |-> SimpleStore, storeB |-> Store(<<>>)] :
     keys \in {<<>>, <<FileOk>>},
     sa \in ChatPrimaryChoices, ref \in ChatRefChoices,
     accounts \in {Undefined} \cup
                  {accountsOf(as) : as \in SeqsUpTo(AccountChoices, MaxAccounts)}}

StoreInputs ==
  {[config |-> Config(providersOf(keys), Undefined, FileSource("sops"), <<>>),
    agentDirs |-> AgentDirs(dirs), storeA |-> Store(profilesOf(shapes)),
    storeB |-> storeB] :
     keys \in {<<>>, <<FileOk>>},
     dirs \in {<<"/a">>, <<"/a", "/b">>, <<"/b", "/a">>},
     shapes \in SeqsUpTo(ProfileChoices, MaxProfiles),
     storeB \in OtherStores}

DirInputs ==
  {[config |-> Config(<<>>, Undefined, Undefined, agents),
    agentDirs |-> agentDirs, storeA |-> SimpleStore, storeB |-> storeB] :
     agents \in AgentIds,
     agentDirs \in {NoAgentDirs}
                     \cup {AgentDirs(l) : l \in SeqsUpTo(AgentDirNames, MaxAgentDirs)},
     storeB \in {Store(<<>>), Store(profilesOf(<<<<"api_key", Undefined, EnvMissing>>>>))}}

PrepareInputs(family) ==
  CASE family = 1 -> ProviderInputs
    [] family = 2 -> ChatInputs
    [] family = 3 -> StoreInputs
    [] family = 4 -> DirInputs

LifecycleInputs ==
  {[config |-> Config(providersOf(<<key>>), chat, FileSource("sops"), <<>>),
    agentDirs |-> AgentDirs(<<"/a">>), storeA |-> SimpleStore, storeB |-> Store(<<>>)] :
     key \in {EnvOk, FileOk},
     chat \in {GoogleChat(Plain, EnvOk,
                          accountsOf(<<GoogleChatAccount(Undefined, FileOk)>>))}}

heapOf(input) ==
  (ConfigAddr :> ConfigObject(input.config))
    @@ (StoreAddr(1) :> StoreObject(input.storeA))
    @@ (StoreAddr(2) :> StoreObject(input.storeB))

InitCommon ==
  /\ decryptCalls = [p \in Passes |-> 0]
  /\ loaderCalls = [p \in Passes |-> <<>>]
  /\ activeSnapshot = NoAddr
  /\ runtimeConfigSnapshot = NoRuntimeConfig
  /\ runtimeAuthStoreSnapshots = NoAddr
  /\ held = [j \in 1..MaxHeld |-> NoAddr]
  /\ lastGet = NoAddr
  /\ lastActivated = Null
  /\ discovery = Null

OffPass == [IdlePass(Params(ConfigAddr, Env, NoAgentDirs)) EXCEPT !.pc = "off"]

-----------------------------------------------------------------------------
(* Specifications *)

\* the lifecycle of the active snapshot around concurrent prepare passes
Init ==
  /\ InitCommon
  /\ \E input \in LifecycleInputs :
       /\ heap = heapOf(input)
       /\ pass = [p \in Passes |-> IdlePass(Params(ConfigAddr, Env, input.agentDirs))]
  /\ context = [p \in Passes |-> NoContext]
  /\ calls = <<>>

PassStep(p) ==
  \/ PrepareStart(p)
  \/ VisitProvider(p)
  \/ VisitGoogleChat(p)
  \/ VisitAccount(p)
  \/ VisitProfile(p)
  \/ DecryptSettle(p)
  \/ Resume(p)
  \/ CollectDirs(p)
  \/ LoadAuthStore(p)
  \/ PushAuthStore(p)
  \/ PrepareReturn(p)

Next ==
  \/ \E p \in Passes : PassStep(p)
  \/ Activate
  \/ GetActive
  \/ Clear
  \/ Keep
  \/ Mutate

Spec == Init /\ [][Next]_vars

\* one prepare pass over every family of inputs
InitPrepare ==
  /\ InitCommon
  /\ \E family \in 1..4 : \E input \in PrepareInputs(family) :
       /\ heap = heapOf(input)
       /\ pass = [p \in Passes |->
                    IF p = 1 THEN IdlePass(Params(ConfigAddr, Env, input.agentDirs))
                    ELSE OffPass]
  /\ context = [p \in Passes |-> NoContext]
  /\ calls = <<>>

NextPrepare == \E p \in Passes : PassStep(p)

SpecPrepare == InitPrepare /\ [][NextPrepare]_vars

\* resolveSecretRefValue called MaxCalls times on one context, in any interleaving
InitResolve ==
  /\ InitCommon
  /\ \E file \in FileSources :
       heap = heapOf([config |-> Config(<<>>, Undefined, file, <<>>),
                      storeA |-> Store(<<>>), storeB |-> Store(<<>>)])
  /\ pass = [p \in Passes |-> OffPass]
  /\ context = [p \in Passes |->
                  IF p = 1 THEN ResolverContext(Params(ConfigAddr, Env, NoAgentDirs))
                  ELSE NoContext]
  /\ calls \in [1..MaxCalls -> {Call(ref) : ref \in Refs}]

NextResolve ==
  \/ \E n \in 1..MaxCalls : CallEnter(n) \/ CallResume(n)
  \/ DecryptSettle(1)

SpecResolve == InitResolve /\ [][NextResolve]_vars

-----------------------------------------------------------------------------
(* Properties of resolveSecretRefValue *)

fileCall(c) == c.ref.source = "file" /\ trim(c.ref.id) # <<>>
envCall(c) == c.ref.source = "env" /\ trim(c.ref.id) # <<>>

\* C1: in one resolution context the external decrypt is invoked at most
\* once, however many file-sourced references are resolved and in whatever
\* interleaving; every file-sourced call awaits the one cached operation and
\* ends with what it produced, the payload's entry or the decrypt's failure
C1_SingleFlight ==
  /\ \A p \in Passes : decryptCalls[p] <= 1
  /\ \A n \in DOMAIN calls :
       fileCall(calls[n]) /\ calls[n].pc # "start" =>
         context[1].fileSecretsPromise.state # "null"
  /\ \A n \in DOMAIN calls :
       fileCall(calls[n]) /\ calls[n].pc = "done" =>
         LET f == context[1].fileSecretsPromise
             id == trim(calls[n].ref.id) IN
         CASE f.state = "fulfilled" ->
                calls[n].result = IF id \in DOMAIN f.payload THEN Value(f.payload[id])
                                  ELSE Thrown("MissingSecret")
           [] f.state = "rejected" -> calls[n].result = Thrown(f.err)
           [] OTHER -> FALSE

\* two file-sourced calls have both ended with the failure of the one decrypt
C1_Witness ==
  /\ decryptCalls[1] = 1
  /\ Len(calls) >= 2
  /\ \A n \in {1, 2} :
       /\ fileCall(calls[n])
       /\ calls[n].pc = "done"
       /\ calls[n].result = Thrown("DecryptFailed")

blank(chars) == \A n \in 1..Len(chars) : chars[n] = " "

\* C4: an env reference with a non-empty trimmed id fails with MissingSecret
\* when the variable is unset, empty or whitespace only, and otherwise
\* returns the variable's string as stored; env references start no decrypt
C4_EnvResolution ==
  /\ \A n \in DOMAIN calls :
       envCall(calls[n]) /\ calls[n].pc = "done" =>
         LET id == trim(calls[n].ref.id) IN
         calls[n].result =
           IF id \notin DOMAIN Env \/ blank(Env[id]) THEN Thrown("MissingSecret")
           ELSE Value(Str(Env[id]))
  /\ (\A n \in DOMAIN calls : calls[n].ref.source = "env") =>
       /\ decryptCalls[1] = 0
       /\ context[1].fileSecretsPromise = NoPromise

\* an env reference whose id needed trimming has returned a padded value whole
C4_Witness ==
  \E n \in DOMAIN calls :
    /\ calls[n].ref = EnvOk
    /\ calls[n].pc = "done"
    /\ calls[n].result = Value(Str(<<" ", "v">>))
    /\ \E m \in DOMAIN calls :
         calls[m].ref = EnvBlank /\ calls[m].result = Thrown("MissingSecret")

\* C5: without a file secret source a file-sourced reference fails with
\* NotConfigured, with a source of another type with UnsupportedSourceType,
\* and in both cases the external decrypt is never invoked
C5_FileSourceChecked ==
  LET fileSource == heap[ConfigAddr].v.secretsSourcesFile IN
  fileSource = Undefined \/ fileSource.type # "sops" =>
    /\ decryptCalls[1] = 0
    /\ \A n \in DOMAIN calls :
         fileCall(calls[n]) /\ calls[n].pc = "done" =>
           calls[n].result = Thrown(IF fileSource = Undefined THEN "NotConfigured"
                                    ELSE "UnsupportedSourceType")

\* a file-sourced call has failed against a source of an unsupported type
C5_Witness ==
  /\ heap[ConfigAddr].v.secretsSourcesFile = FileSource("age")
  /\ \E n \in DOMAIN calls :
       /\ calls[n].ref = FileOk
       /\ calls[n].pc = "done"
       /\ calls[n].result = Thrown("UnsupportedSourceType")

-----------------------------------------------------------------------------
(* Properties of prepareSecretsRuntimeSnapshot *)

\* C2: once the resolution of a reference has failed, the pass has failed as
\* a whole: it returns no snapshot, and from then on it resolves no further
\* reference, starts no decrypt and loads no further auth store
C2_FailFast ==
  [][\A p \in Passes :
       /\ pass'[p].error # "none" =>
            /\ pass'[p].pc = "failed"
            /\ pass'[p].result = NoAddr
            /\ pass'[p].returned = Null
       /\ pass[p].error # "none" =>
            /\ pass'[p] = pass[p]
            /\ context'[p] = context[p]
            /\ loaderCalls'[p] = loaderCalls[p]
            /\ decryptCalls'[p] = decryptCalls[p]]_vars

\* a pass over two agent directories has failed in the first profile of the
\* first directory, with a reference still ahead in that store
C2_Witness ==
  /\ pass[1].pc = "failed"
  /\ pass[1].error = "MissingSecret"
  /\ pass[1].params.agentDirs = AgentDirs(<<"/a", "/b">>)
  /\ loaderCalls[1] = <<"/a">>
  /\ heap[StoreAddr(1)].v.profiles =
       profilesOf(<<<<"api_key", Plain, EnvMissing>>, <<"token", Plain, FileOk>>>>)

\* a plaintext field counts as populated when it holds a string that is not
\* blank, or an object that is not itself a reference
populated(value) ==
  \/ value.t = "string" /\ ~blank(value.s)
  \/ value.t = "object" /\ ~isSecretRef(value)

\* what a reference stands for in the environment and the decrypted payload
valueOf(ref) ==
  IF ref.source = "env" THEN Str(Env[trim(ref.id)]) ELSE Payload[trim(ref.id)]

occurrences(warnings, path) ==
  Cardinality({n \in 1..Len(warnings) : warnings[n] = Warning(path)})

bothPopulated(target) ==
  isSecretRef(target.serviceAccountRef) /\ populated(target.serviceAccount)

\* C3: in the snapshot a successful pass returns, every slot that came with
\* both a reference field and a populated plaintext field (chat service
\* account, chat sub-account, api_key key, token token) holds the reference's
\* value, and the warnings hold exactly one override warning with its path
C3_OverrideWarnedOnce ==
  \A p \in Passes :
    pass[p].pc = "done" =>
      LET input == heap[pass[p].params.config].v
          out == pass[p].returned
          chat == input.channelsGooglechat IN
      /\ chat # Undefined /\ bothPopulated(chat) =>
           /\ out.config.channelsGooglechat.serviceAccount
                = valueOf(chat.serviceAccountRef)
           /\ occurrences(out.warnings, <<"channels.googlechat">>) = 1
      /\ chat # Undefined /\ isRecord(chat.accounts) =>
           \A n \in 1..Len(chat.accounts.entries) :
             LET entry == chat.accounts.entries[n] IN
             isRecord(entry.account) /\ bothPopulated(entry.account) =>
               /\ out.config.channelsGooglechat.accounts.entries[n].account.serviceAccount
                    = valueOf(entry.account.serviceAccountRef)
               /\ occurrences(out.warnings,
                              <<"channels.googlechat.accounts", entry.id>>) = 1
      /\ \A k \in 1..Len(out.authStores) :
           LET agentDir == out.authStores[k].agentDir
               loaded == heap[StoreAddr(dirIndex(agentDir))].v.profiles
               profiles == out.authStores[k].store.profiles IN
           \A n \in 1..Len(loaded) :
             /\ /\ loaded[n].type = "api_key"
                /\ isSecretRef(loaded[n].keyRef)
                /\ populated(loaded[n].key)
                => /\ profiles[n].key = valueOf(loaded[n].keyRef)
                   /\ occurrences(out.warnings,
                                  <<agentDir, "auth-profiles", loaded[n].id, "key">>) = 1
             /\ /\ loaded[n].type = "token"
                /\ isSecretRef(loaded[n].tokenRef)
                /\ populated(loaded[n].token)
                => /\ profiles[n].token = valueOf(loaded[n].tokenRef)
                   /\ occurrences(out.warnings,
                                  <<agentDir, "auth-profiles", loaded[n].id, "token">>) = 1

\* a store with an api_key slot and a token slot, both doubly populated, has
\* been resolved, with one warning for each
C3_Witness ==
  /\ pass[1].pc = "done"
  /\ heap[StoreAddr(1)].v.profiles =
       profilesOf(<<<<"api_key", Plain, EnvOk>>, <<"token", Plain, FileOk>>>>)
  /\ pass[1].returned.warnings =
       <<Warning(<<"/a", "auth-profiles", "p1", "key">>),
         Warning(<<"/a", "auth-profiles", "p2", "token">>)>>

\* C9: a successful pass returns a config in which every provider apiKey that
\* was an env reference to a set, non-blank variable holds the variable's
\* value, and a sourceConfig that still holds the reference; sourceConfig is
\* deep-equal to the caller's configuration without being that object, and
\* no step of the pass writes to the caller's configuration
C9_ConfigResolvedSourceKept ==
  /\ [](\A p \in Passes :
          pass[p].pc = "done" /\ pass[p].result \in DOMAIN heap =>
            LET input == heap[pass[p].params.config].v
                out == pass[p].returned IN
            /\ \A n \in 1..Len(input.modelsProviders) :
                 LET apiKey == input.modelsProviders[n].apiKey IN
                 /\ isSecretRef(apiKey)
                 /\ apiKey.source = "env"
                 /\ trim(apiKey.id) \in DOMAIN Env
                 /\ ~blank(Env[trim(apiKey.id)])
                 => /\ out.config.modelsProviders[n].apiKey = Str(Env[trim(apiKey.id)])
                    /\ out.sourceConfig.modelsProviders[n].apiKey = apiKey
            /\ out.sourceConfig = input
            /\ heap[pass[p].result].sourceConfig # pass[p].params.config
            /\ heap[pass[p].result].config # pass[p].params.config)
  /\ [][heap'[ConfigAddr] = heap[ConfigAddr]]_vars

\* a pass has returned with a provider's env reference replaced by the value
C9_Witness ==
  /\ pass[1].pc = "done"
  /\ Len(heap[ConfigAddr].v.modelsProviders) = 2
  /\ heap[ConfigAddr].v.modelsProviders[1].apiKey = EnvOk
  /\ pass[1].returned.config.modelsProviders[1].apiKey = Str(<<" ", "v">>)
  /\ pass[1].returned.sourceConfig.modelsProviders[1].apiKey = EnvOk

\* whether the slot of a chat account is one the walk writes to
chatReference(target) ==
  isSecretRef(target.serviceAccountRef) \/ isSecretRef(target.serviceAccount)

noReferenceSites(config) ==
  /\ \A n \in 1..Len(config.modelsProviders) :
       ~isSecretRef(config.modelsProviders[n].apiKey)
  /\ config.channelsGooglechat # Undefined =>
       /\ ~chatReference(config.channelsGooglechat)
       /\ isRecord(config.channelsGooglechat.accounts) =>
            \A n \in 1..Len(config.channelsGooglechat.accounts.entries) :
              LET account == config.channelsGooglechat.accounts.entries[n].account IN
              isRecord(account) => ~chatReference(account)

\* a configuration with the fields blanked out at which the input holds a
\* reference the walk resolves
blankSites(config, input) ==
  [config EXCEPT
     !.modelsProviders =
        [n \in 1..Len(@) |->
           IF /\ n <= Len(input.modelsProviders)
              /\ isSecretRef(input.modelsProviders[n].apiKey)
             THEN [@[n] EXCEPT !.apiKey = Null] ELSE @[n]],
     !.channelsGooglechat =
        IF @ = Undefined \/ input.channelsGooglechat = Undefined THEN @
        ELSE [@ EXCEPT
                !.serviceAccount =
                   IF chatReference(input.channelsGooglechat) THEN Null ELSE @,
                !.accounts =
                   IF ~isRecord(@) \/ ~isRecord(input.channelsGooglechat.accounts) THEN @
                   ELSE [@ EXCEPT !.entries =
                           [n \in 1..Len(@) |->
                              LET entries == input.channelsGooglechat.accounts.entries IN
                              IF /\ n <= Len(entries)
                                 /\ isRecord(entries[n].account)
                                 /\ chatReference(entries[n].account)
                                 /\ isRecord(@[n].account)
                                THEN [@[n] EXCEPT !.account.serviceAccount = Null]
                                ELSE @[n]]]]]

\* C10: the resolved configuration of a successful pass equals the input
\* everywhere but in the apiKey of providers that held a reference and the
\* serviceAccount of chat slots that held one; a reference-shaped value
\* elsewhere stays; an input with no reference at those sites comes back
\* deep-equal, with no warning from the config walk
C10_OnlySitesChange ==
  \A p \in Passes :
    pass[p].pc = "done" =>
      LET input == heap[pass[p].params.config].v
          out == pass[p].returned IN
      /\ blankSites(out.config, input) = blankSites(input, input)
      /\ isSecretRef(input.gatewayAuthToken)
      /\ out.config.gatewayAuthToken = input.gatewayAuthToken
      /\ noReferenceSites(input) =>
           /\ out.config = input
           /\ \A n \in 1..Len(out.warnings) :
                out.warnings[n].path[1]
                  \notin {"channels.googlechat", "channels.googlechat.accounts"}

\* an input with plaintext at every site and a reference-shaped value
\* elsewhere has come back unchanged
C10_Witness ==
  /\ pass[1].pc = "done"
  /\ noReferenceSites(heap[ConfigAddr].v)
  /\ Len(heap[ConfigAddr].v.modelsProviders) = 2
  /\ heap[ConfigAddr].v.modelsProviders[1].apiKey = Plain
  /\ isSecretRef(pass[1].returned.config.gatewayAuthToken)
  /\ pass[1].returned.config = heap[ConfigAddr].v

-----------------------------------------------------------------------------
(* Properties of the active snapshot *)

\* everything the program and the caller hold apart from the last result of
\* getActive
otherRoots ==
  roots(pass, held, activeSnapshot, runtimeConfigSnapshot,
        runtimeAuthStoreSnapshots, NoAddr)

\* C6: while a snapshot is active, getActive returns a value deep-equal to
\* what activate was given, whatever the caller has since written into that
\* argument or into earlier results; the result is made of new objects only,
\* sharing none with the stored snapshot, the argument or an earlier result
C6_GetActiveFreshCopy ==
  [][GetActive /\ activeSnapshot # NoAddr =>
       /\ lastGet' # NoAddr
       /\ deepSnapshot(heap', lastGet') = lastActivated
       /\ reachable(heap', {lastGet'}) \cap reachable(heap', otherRoots') = {}
       /\ \A j \in DOMAIN held : held'[j] # lastGet']_vars

\* the caller has written into the activated snapshot and into an earlier
\* result it kept, and a later getActive still returned what was activated
C6_Witness ==
  /\ lastActivated = pass[1].returned
  /\ pass[1].result # NoAddr
  /\ deepSnapshot(heap, pass[1].result) # lastActivated
  /\ held[1] \notin {NoAddr, lastGet}
  /\ deepSnapshot(heap, held[1]) # lastActivated
  /\ lastGet # NoAddr
  /\ deepSnapshot(heap, lastGet) = lastActivated

absent ==
  /\ activeSnapshot = NoAddr
  /\ runtimeConfigSnapshot = NoRuntimeConfig
  /\ runtimeAuthStoreSnapshots = NoAddr

\* C7: clear leaves the active snapshot, the config registry and the
\* auth-store registry absent, whatever was activated before; with nothing
\* active it changes nothing; getActive after it returns absent
C7_ClearResets ==
  [][/\ Clear => absent'
     /\ Clear /\ absent =>
          UNCHANGED <<heap, activeSnapshot, runtimeConfigSnapshot,
                      runtimeAuthStoreSnapshots>>
     /\ lastActivated' = Null => absent'
     /\ GetActive /\ lastActivated = Null => lastGet' = NoAddr]_vars

\* a snapshot was activated and read, then cleared, and getActive has
\* returned absent since
C7_Witness ==
  /\ held[1] # NoAddr
  /\ lastGet = NoAddr
  /\ lastActivated = Null
  /\ absent

\* C8: the stored snapshot and both registries hold the data of the argument
\* of the latest activate when no clear followed it, the auth-store registry
\* exactly that snapshot's stores, and all are absent otherwise; getActive
\* returns accordingly
C8_LastActivationWins ==
  /\ [](IF lastActivated = Null THEN absent
        ELSE /\ activeSnapshot # NoAddr
             /\ deepSnapshot(heap, activeSnapshot) = lastActivated
             /\ runtimeAuthStoreSnapshots # NoAddr
             /\ deepSeq(heap, heap[runtimeAuthStoreSnapshots].v)
                  = lastActivated.authStores
             /\ heap[runtimeConfigSnapshot.config].v = lastActivated.config
             /\ heap[runtimeConfigSnapshot.sourceConfig].v = lastActivated.sourceConfig)
  /\ [][GetActive =>
          IF lastActivated = Null THEN lastGet' = NoAddr
          ELSE lastGet' # NoAddr /\ deepSnapshot(heap', lastGet') = lastActivated]_vars

\* a snapshot with auth stores was activated and read, and one without any
\* was activated after it: the registry holds none
C8_Witness ==
  /\ held[1] # NoAddr
  /\ heap[heap[held[1]].authStores].v # <<>>
  /\ lastActivated # Null
  /\ lastActivated.authStores = <<>>
  /\ runtimeAuthStoreSnapshots # NoAddr
  /\ heap[runtimeAuthStoreSnapshots].v = <<>>

-----------------------------------------------------------------------------
(* Properties of the chat service-account slots *)

\* a primary field that holds a value: not absent, not null, not the empty
\* string
nonEmptyValue(value) == value \notin {Undefined, Null, Str(<<>>)}

\* the chat slots of a configuration, each with its warning path
chatSlots(config) ==
  IF config.channelsGooglechat = Undefined THEN {}
  ELSE {[target |-> config.channelsGooglechat, path |-> <<"channels.googlechat">>]}
         \cup IF ~isRecord(config.channelsGooglechat.accounts) THEN {}
              ELSE {[target |-> config.channelsGooglechat.accounts.entries[n].account,
                     path |-> <<"channels.googlechat.accounts",
                                config.channelsGooglechat.accounts.entries[n].id>>] :
                      n \in {m \in 1..Len(config.channelsGooglechat.accounts.entries) :
                               isRecord(config.channelsGooglechat.accounts.entries[m].account)}}

\* C11: a successful pass returns an override warning for a chat slot if and
\* only if the slot has an explicit serviceAccountRef reference and its
\* serviceAccount holds a non-empty value that is not a reference; none when
\* serviceAccount is absent, null, the empty string or a reference
C11_ChatWarningIff ==
  \A p \in Passes :
    pass[p].pc = "done" =>
      \A slot \in chatSlots(heap[pass[p].params.config].v) :
        occurrences(pass[p].returned.warnings, slot.path) >= 1
          <=> /\ isSecretRef(slot.target.serviceAccountRef)
              /\ nonEmptyValue(slot.target.serviceAccount)
              /\ ~isSecretRef(slot.target.serviceAccount)

-----------------------------------------------------------------------------
(* Properties of references with an unsupported source *)

unsupportedCall(c) == c.ref.source \notin {"env", "file"}

\* no call with an unsupported source reads the environment, and a context
\* that serves only such calls never starts a decrypt
unsupportedTouchesNothing ==
  /\ \A n \in DOMAIN calls : unsupportedCall(calls[n]) => ~calls[n].envRead
  /\ (\A n \in DOMAIN calls : unsupportedCall(calls[n])) =>
       /\ decryptCalls[1] = 0
       /\ context[1].fileSecretsPromise = NoPromise

\* C12 as stated: a reference whose source is neither env nor file fails
\* with UnsupportedSource whatever its id, an id that is empty after
\* trimming included, without an environment read or a decrypt
C12_UnsupportedSourceAnyId ==
  /\ \A n \in DOMAIN calls :
       unsupportedCall(calls[n]) /\ calls[n].pc = "done" =>
         calls[n].result = Thrown("UnsupportedSource")
  /\ unsupportedTouchesNothing

\* C12 amended: a reference whose source is neither env nor file fails with
\* UnsupportedSource when its id is not empty after trimming and with
\* InvalidReference when it is, in both cases without an environment read
\* or a decrypt
C12_UnsupportedSource ==
  /\ \A n \in DOMAIN calls :
       unsupportedCall(calls[n]) /\ calls[n].pc = "done" =>
         calls[n].result = IF blank(calls[n].ref.id) THEN Thrown("InvalidReference")
                           ELSE Thrown("UnsupportedSource")
  /\ unsupportedTouchesNothing

\* one unsupported reference with an id has failed as unsupported, another
\* with a blank id as invalid
C12_Witness ==
  /\ Len(calls) >= 2
  /\ calls[1].ref = SecretRef("vault", <<" ", "K">>)
  /\ calls[1].result = Thrown("UnsupportedSource")
  /\ calls[2].ref = SecretRef("vault", <<" ">>)
  /\ calls[2].result = Thrown("InvalidReference")

-----------------------------------------------------------------------------
(* discoverAuthStorage (agents/pi-model-discovery.ts) *)

MaxDiscoveryProfiles == 2

\* Date.now() during the run
Now == 5

\* Number.isFinite; a number that is not finite is [t |-> "number", finite |-> FALSE]
isFinite(value) == value.t = "number" /\ "n" \in DOMAIN value

\* typeof value === "string" ? value.trim() : ""
trimmedOrEmpty(value) == IF value.t = "string" THEN trim(value.s) ELSE <<>>

PiApiKeyCredential(key) == [type |-> "api_key", key |-> key]
PiOAuthCredential(access, refresh, expires) ==
  [type |-> "oauth", access |-> access, refresh |-> refresh, expires |-> expires]

NoCredential == [type |-> "none"]

convertAuthProfileCredential(cred) ==
  IF cred.type = "api_key" THEN
    LET key == trimmedOrEmpty(cred.key) IN
    IF key = <<>> THEN NoCredential ELSE PiApiKeyCredential(key)
  ELSE IF cred.type = "token" THEN
    LET token == trimmedOrEmpty(cred.token) IN
    IF token = <<>> THEN NoCredential
    ELSE IF isFinite(cred.expires) /\ Now >= cred.expires.n THEN NoCredential
    ELSE PiApiKeyCredential(token)
  ELSE IF cred.type = "oauth" THEN
    LET access == trimmedOrEmpty(cred.access)
        refresh == trimmedOrEmpty(cred.refresh) IN
    IF \/ access = <<>>
       \/ refresh = <<>>
       \/ ~isFinite(cred.expires)
       \/ cred.expires.n <= 0
      THEN NoCredential
      ELSE PiOAuthCredential(access, refresh, cred.expires)
  ELSE NoCredential

\* agents/model-selection.js normalizeProviderId, after String(provider ?? "")
normalizeProviderId(provider) ==
  CASE provider = Undefined -> ""
    [] provider = Str(<<"OpenRouter">>) -> "openrouter"
    [] provider = Str(<<"openrouter">>) -> "openrouter"
    [] provider = Str(<<"anthropic">>) -> "anthropic"
    [] provider = Str(<<"constructor">>) -> "constructor"
    [] OTHER -> ""

\* the loop of resolvePiCredentials over Object.values(store.profiles); the
\* lookup credentials[provider] on the object literal finds the key
\* "constructor" of Object.prototype
RECURSIVE resolvePiCredentials(_, _)
resolvePiCredentials(profiles, credentials) ==
  IF profiles = <<>> THEN credentials
  ELSE LET credential == Head(profiles)
           provider == normalizeProviderId(credential.provider)
           converted == convertAuthProfileCredential(credential) IN
       IF \/ provider = ""
          \/ provider \in DOMAIN credentials
          \/ provider = "constructor"
         THEN resolvePiCredentials(Tail(profiles), credentials)
       ELSE IF converted = NoCredential
         THEN resolvePiCredentials(Tail(profiles), credentials)
       ELSE resolvePiCredentials(Tail(profiles),
                                 credentials @@ (provider :> converted))

\* JSON.stringify then JSON.parse of a credential: a number that is not
\* finite comes back as null
jsonRoundTrip(credential) ==
  IF credential.type = "oauth" /\ ~isFinite(credential.expires)
    THEN [credential EXCEPT !.expires = Null] ELSE credential

\* what the AuthStorage built holds: the credentials it was given, the
\* runtime API keys set on it, the file it is bound to and what was written
\* to that file
AuthStorage(data, runtimeKeys, path, written) ==
  [data |-> data, runtimeKeys |-> runtimeKeys, path |-> path, written |-> written]

\* createAuthStorage for a library whose AuthStorage has the static inMemory,
\* the static fromStorage, or neither (then a storage bound to the path, with
\* runtime keys when setRuntimeApiKey exists)
createAuthStorage(shape, path, creds) ==
  CASE shape = "inMemory" -> AuthStorage(creds, <<>>, "none", FALSE)
    [] shape = "fromStorage" ->
         AuthStorage([provider \in DOMAIN creds |-> jsonRoundTrip(creds[provider])],
                     <<>>, "none", FALSE)
    [] shape = "path" ->
         AuthStorage(<<>>,
                     [provider \in DOMAIN creds |->
                        IF creds[provider].type = "api_key" THEN creds[provider].key
                        ELSE creds[provider].access],
                     path, FALSE)
    [] OTHER -> AuthStorage(<<>>, <<>>, path, FALSE)

DiscoveryProfiles ==
  {[type |-> "api_key", provider |-> provider, key |-> key] :
     provider \in {Undefined, Str(<<"OpenRouter">>), Str(<<"openrouter">>),
                   Str(<<"anthropic">>), Str(<<"constructor">>)},
     key \in {Undefined, Str(<<" ">>), Str(<<" ", "k">>)}}
  \cup {[type |-> "token", provider |-> provider, token |-> token, expires |-> expires] :
          provider \in {Str(<<"openrouter">>), Str(<<"anthropic">>)},
          token \in {Str(<<>>), Str(<<"t", " ">>)},
          expires \in {Undefined, [t |-> "number", finite |-> FALSE], Num(Now), Num(Now + 1)}}
  \cup {[type |-> "oauth", provider |-> provider, access |-> access,
         refresh |-> refresh, expires |-> expires] :
          provider \in {Str(<<"openrouter">>)},
          access \in {Str(<<" ">>), Str(<<"a">>)},
          refresh \in {Undefined, Str(<<"r">>)},
          expires \in {Undefined, [t |-> "number", finite |-> FALSE], Num(0), Num(1)}}
  \cup {[type |-> "other", provider |-> Str(<<"anthropic">>)]}

\* const credentials = resolvePiCredentials(agentDir)
ResolvePiCredentials ==
  /\ discovery.pc = "start"
  /\ discovery' =
       [discovery EXCEPT
          !.credentials = resolvePiCredentials(discovery.profiles, <<>>),
          !.pc = "create"]
  /\ UNCHANGED <<heap, context, decryptCalls, calls, pass, loaderCalls, activeSnapshot,
                 runtimeConfigSnapshot, runtimeAuthStoreSnapshots, held, lastGet,
                 lastActivated>>

\* return createAuthStorage(AuthStorage, path.join(agentDir, "auth.json"), credentials)
CreateAuthStorage ==
  /\ discovery.pc = "create"
  /\ discovery' =
       [discovery EXCEPT
          !.storage = createAuthStorage(discovery.shape, "auth.json",
                                        discovery.credentials),
          !.pc = "done"]
  /\ UNCHANGED <<heap, context, decryptCalls, calls, pass, loaderCalls, activeSnapshot,
                 runtimeConfigSnapshot, runtimeAuthStoreSnapshots, held, lastGet,
                 lastActivated>>

InitDiscover ==
  /\ heap = heapOf([config |-> Config(<<>>, Undefined, Undefined, <<>>),
                    storeA |-> Store(<<>>), storeB |-> Store(<<>>)])
  /\ context = [p \in Passes |-> NoContext]
  /\ decryptCalls = [p \in Passes |-> 0]
  /\ calls = <<>>
  /\ pass = [p \in Passes |-> OffPass]
  /\ loaderCalls = [p \in Passes |-> <<>>]
  /\ activeSnapshot = NoAddr
  /\ runtimeConfigSnapshot = NoRuntimeConfig
  /\ runtimeAuthStoreSnapshots = NoAddr
  /\ held = [j \in 1..MaxHeld |-> NoAddr]
  /\ lastGet = NoAddr
  /\ lastActivated = Null
  \* the shapes of the library's AuthStorage under which the repository's test
  \* of discoverAuthStorage passes
  /\ \E shape \in {"inMemory", "fromStorage"} :
       \E profiles \in SeqsUpTo(DiscoveryProfiles, MaxDiscoveryProfiles) :
         discovery = [pc |-> "start", shape |-> shape, profiles |-> profiles,
                      credentials |-> <<>>,
                      storage |-> AuthStorage(<<>>, <<>>, "none", FALSE)]

NextDiscover ==
  \/ ResolvePiCredentials
  \/ CreateAuthStorage

SpecDiscover == InitDiscover /\ [][NextDiscover]_vars

-----------------------------------------------------------------------------
(* Properties of discoverAuthStorage *)

NormalizedProviders == {"openrouter", "anthropic", "constructor"}

expired(profile) == isFinite(profile.expires) /\ Now >= profile.expires.n

\* the profile converts to a valid credential
validProfile(profile) ==
  \/ profile.type = "api_key" /\ trimmedOrEmpty(profile.key) # <<>>
  \/ profile.type = "token" /\ trimmedOrEmpty(profile.token) # <<>> /\ ~expired(profile)
  \/ /\ profile.type = "oauth"
     /\ trimmedOrEmpty(profile.access) # <<>>
     /\ trimmedOrEmpty(profile.refresh) # <<>>
     /\ isFinite(profile.expires)
     /\ profile.expires.n > 0

\* the credential a valid profile is exposed as
exposedAs(profile) ==
  CASE profile.type = "api_key" -> PiApiKeyCredential(trim(profile.key.s))
    [] profile.type = "token" -> PiApiKeyCredential(trim(profile.token.s))
    [] profile.type = "oauth" ->
         PiOAuthCredential(trim(profile.access.s), trim(profile.refresh.s),
                           profile.expires)

validFor(provider, profiles) ==
  {i \in DOMAIN profiles :
     normalizeProviderId(profiles[i].provider) = provider /\ validProfile(profiles[i])}

firstOf(indices) == CHOOSE i \in indices : \A j \in indices : i <= j

\* the storage has auth for the provider
hasAuth(storage, provider) ==
  provider \in DOMAIN storage.data \/ provider \in DOMAIN storage.runtimeKeys

\* C13: the storage built by discoverAuthStorage holds, for each normalized
\* provider id, the credential of the first profile in store order of that
\* provider that converts to a valid credential; the provider has auth if and
\* only if such a profile exists; no auth.json is written.
C13_FirstValidProfilePerProvider ==
  discovery.pc = "done" =>
    /\ \A provider \in NormalizedProviders :
         LET valid == validFor(provider, discovery.profiles) IN
         /\ hasAuth(discovery.storage, provider) <=> valid # {}
         /\ valid # {} =>
              /\ provider \in DOMAIN discovery.storage.data
              /\ discovery.storage.data[provider]
                   = exposedAs(discovery.profiles[firstOf(valid)])
    /\ DOMAIN discovery.storage.data \subseteq NormalizedProviders
    /\ ~discovery.storage.written

-----------------------------------------------------------------------------
(* Order of the events of one pass *)

\* providers, then the top-level chat slot, then the chat accounts, then the
\* agent directories one by one
stage(event) ==
  CASE event.pc = "providers" -> 1
    [] event.pc = "googlechat" -> 2
    [] event.pc = "accounts" -> 3
    [] event.pc \in {"load", "profiles"} -> 3 + event.k

loads(log) == SelectSeq(log, LAMBDA event : event.e = "load")

\* C14: the resolution and load events of one pass are ordered: provider
\* references, then the top-level chat service account, then the chat
\* accounts, then the auth stores; the store of candidate directory k is loaded
\* before any of its references is resolved and after everything of directory
\* k - 1, and the loader is called on the candidate directories in their order.
C14_EventsOrdered ==
  \A p \in Passes :
    LET log == pass[p].log IN
    /\ \A m, n \in DOMAIN log :
         m < n => /\ stage(log[m]) <= stage(log[n])
                  /\ log[n].e = "load" => stage(log[m]) < stage(log[n])
    /\ \A n \in DOMAIN log : log[n].pc = "profiles" =>
         \E m \in 1..(n - 1) : log[m].e = "load" /\ log[m].k = log[n].k
    /\ Len(loads(log)) = Len(loaderCalls[p])
    /\ \A j \in DOMAIN loaderCalls[p] :
         /\ loads(log)[j].k = j
         /\ loaderCalls[p][j] = pass[p].candidateDirs[j]

C14_Witness ==
  /\ pass[1].pc = "done"
  /\ \A phase \in {"providers", "googlechat", "accounts", "profiles"} :
       \E n \in DOMAIN pass[1].log :
         pass[1].log[n].e = "resolve" /\ pass[1].log[n].pc = phase

-----------------------------------------------------------------------------
(* Agreement of the process-wide slots *)

\* C15: in every state, passes suspended or not, the active snapshot, the
\* config registry and the auth-store registry are all absent, or all present
\* with the registries holding the config, the source config and the auth
\* stores of the stored active snapshot.
C15_SlotsAgree ==
  \/ absent
  \/ /\ activeSnapshot # NoAddr
     /\ runtimeConfigSnapshot.config # NoAddr
     /\ runtimeConfigSnapshot.sourceConfig # NoAddr
     /\ runtimeAuthStoreSnapshots # NoAddr
     /\ LET active == deepSnapshot(heap, activeSnapshot) IN
        /\ heap[runtimeConfigSnapshot.config].v = active.config
        /\ heap[runtimeConfigSnapshot.sourceConfig].v = active.sourceConfig
        /\ deepSeq(heap, heap[runtimeAuthStoreSnapshots].v) = active.authStores

\* pass 2 is suspended at an await while a snapshot is active that was
\* activated after the caller wrote into what pass 1 returned
C15_Witness ==
  /\ pass[2].awaiting
  /\ pass[1].pc = "done"
  /\ activeSnapshot # NoAddr
  /\ deepSnapshot(heap, activeSnapshot) # pass[1].returned
  /\ runtimeAuthStoreSnapshots # NoAddr
  /\ runtimeConfigSnapshot.config # NoAddr

-----------------------------------------------------------------------------
(* Writes through the registries *)

\* a reader of the registries writes into the config and the auth stores it
\* was handed
MutateRegistry ==
  /\ UNCHANGED <<context, decryptCalls, calls, pass, loaderCalls, activeSnapshot,
                 runtimeConfigSnapshot, runtimeAuthStoreSnapshots, held, lastGet,
                 lastActivated, discovery>>
  /\ \E written \in
       {writeAll(heap,
                 {a \in reachable(heap, {runtimeConfigSnapshot.config,
                                         runtimeAuthStoreSnapshots}) \cap DOMAIN heap :
                    heap[a].kind \in {"config", "store"}})} :
       /\ written # heap
       /\ heap' = collect(written, rootsNext)

NextRegistry ==
  \/ Next
  \/ MutateRegistry

\* the lifecycle with readers of the registries that write into what they read
SpecRegistry == Init /\ [][NextRegistry]_vars

\* C16: the objects reachable from the stored active snapshot and the objects
\* the registries were handed are disjoint, and getActive returns the data of
\* the activated snapshot whatever was written through the registries.
C16_RegistriesIsolated ==
  /\ [](activeSnapshot # NoAddr =>
          reachable(heap, {activeSnapshot})
            \cap reachable(heap, {runtimeConfigSnapshot.config,
                                  runtimeConfigSnapshot.sourceConfig,
                                  runtimeAuthStoreSnapshots}) \subseteq {NoAddr})
  /\ [][GetActive /\ activeSnapshot # NoAddr =>
          deepSnapshot(heap', lastGet') = lastActivated]_vars

-----------------------------------------------------------------------------
(* Precedence of the explicit reference of a chat slot *)

\* the places of the chat slots in the walk
chatPositions(config) ==
  IF config.channelsGooglechat = Undefined THEN {}
  ELSE {[pc |-> "googlechat", i |-> 1]}
         \cup IF ~isRecord(config.channelsGooglechat.accounts) THEN {}
              ELSE {[pc |-> "accounts", i |-> n] :
                      n \in {m \in 1..Len(config.channelsGooglechat.accounts.entries) :
                               isRecord(config.channelsGooglechat.accounts.entries[m].account)}}

slotAt(config, at) ==
  IF at.pc = "googlechat" THEN config.channelsGooglechat
  ELSE config.channelsGooglechat.accounts.entries[at.i].account

pathAt(config, at) ==
  IF at.pc = "googlechat" THEN <<"channels.googlechat">>
  ELSE <<"channels.googlechat.accounts",
         config.channelsGooglechat.accounts.entries[at.i].id>>

bothReferences(target) ==
  isSecretRef(target.serviceAccountRef) /\ isSecretRef(target.serviceAccount)

onlyInline(target) ==
  ~isSecretRef(target.serviceAccountRef) /\ isSecretRef(target.serviceAccount)

\* the reference can fail with this error: an env reference to a variable
\* that is unset or blank, a file reference whose decrypt failed or whose
\* pointer is not in the payload
canFailWith(ref, error) ==
  IF ref.source = "env"
    THEN trim(ref.id) \notin DOMAIN Env \/ blank(Env[trim(ref.id)])
    ELSE error = "DecryptFailed" \/ trim(ref.id) \notin DOMAIN Payload

resolvesAt(log, at) ==
  {n \in 1..Len(log) : log[n].e = "resolve" /\ log[n].pc = at.pc /\ log[n].i = at.i}

\* C17: at a chat slot with a reference in serviceAccountRef and another in
\* serviceAccount one lookup is made, of the explicit reference: a pass that
\* fails there fails as the explicit reference does, a pass that succeeds
\* returns the explicit reference's value in serviceAccount and no override
\* warning for the slot; a slot with the inline reference only returns the
\* inline reference's value.
C17_ExplicitReferenceFirst ==
  \A p \in Passes :
    pass[p].pc \in {"done", "failed"} =>
      LET input == heap[pass[p].params.config].v
          log == pass[p].log IN
      \A at \in chatPositions(input) :
        LET target == slotAt(input, at) IN
        /\ Cardinality(resolvesAt(log, at)) <= 1
        /\ pass[p].pc = "failed" /\ resolvesAt(log, at) = {Len(log)} =>
             /\ bothReferences(target) =>
                  canFailWith(target.serviceAccountRef, pass[p].error)
             /\ onlyInline(target) => canFailWith(target.serviceAccount, pass[p].error)
        /\ pass[p].pc = "done" =>
             LET out == slotAt(pass[p].returned.config, at) IN
             /\ bothReferences(target) =>
                  /\ resolvesAt(log, at) # {}
                  /\ out.serviceAccount = valueOf(target.serviceAccountRef)
                  /\ occurrences(pass[p].returned.warnings, pathAt(input, at)) = 0
             /\ onlyInline(target) =>
                  /\ resolvesAt(log, at) # {}
                  /\ out.serviceAccount = valueOf(target.serviceAccount)

\* a pass has succeeded on a top-level slot whose inline reference names an
\* unset variable and whose explicit reference names a set one
C17_Witness ==
  /\ pass[1].pc = "done"
  /\ heap[ConfigAddr].v.channelsGooglechat # Undefined
  /\ heap[ConfigAddr].v.channelsGooglechat.serviceAccount = EnvMissing
  /\ heap[ConfigAddr].v.channelsGooglechat.serviceAccountRef = EnvOk
  /\ pass[1].returned.config.channelsGooglechat.serviceAccount = valueOf(EnvOk)
  /\ occurrences(pass[1].returned.warnings, <<"channels.googlechat">>) = 0

-----------------------------------------------------------------------------
(* Frame of the auth-store walk *)

\* the profile as the walk may return it: the key of an api_key profile with
\* a keyRef reference and the token of a token profile with a tokenRef
\* reference hold the reference's value, all else is as loaded
walked(profile) ==
  IF profile.type = "api_key" /\ isSecretRef(profile.keyRef)
    THEN [profile EXCEPT !.key = valueOf(profile.keyRef)]
  ELSE IF profile.type = "token" /\ isSecretRef(profile.tokenRef)
    THEN [profile EXCEPT !.token = valueOf(profile.tokenRef)]
  ELSE profile

loadedStore(agentDir) == heap[StoreAddr(dirIndex(agentDir))].v

\* C18: each store of a returned snapshot equals the store the loader gave
\* for its directory except for the key of api_key profiles with a keyRef
\* reference and the token of token profiles with a tokenRef reference, which
\* hold the reference's value; no step of a pass writes to a store the loader
\* returned.
C18_AuthStoreFrame ==
  /\ [](\A p \in Passes :
          pass[p].pc = "done" =>
            \A k \in 1..Len(pass[p].returned.authStores) :
              LET entry == pass[p].returned.authStores[k]
                  loaded == loadedStore(entry.agentDir) IN
              /\ Len(entry.store.profiles) = Len(loaded.profiles)
              /\ entry.store = [loaded EXCEPT !.profiles =
                                  [n \in 1..Len(loaded.profiles) |->
                                     walked(loaded.profiles[n])]])
  /\ [][\A d \in 1..Len(CanonDirs) : heap'[StoreAddr(d)] = heap[StoreAddr(d)]]_vars

\* a store with a reference placed inline in a key and a token profile with a
\* tokenRef reference has been walked: the first profile is as loaded, the
\* second holds the value
C18_Witness ==
  /\ pass[1].pc = "done"
  /\ heap[StoreAddr(1)].v.profiles =
       profilesOf(<<<<"api_key", EnvOk, Undefined>>, <<"token", Plain, FileOk>>>>)
  /\ Len(pass[1].returned.authStores) >= 1
  /\ pass[1].returned.authStores[1].agentDir = "/a"
  /\ pass[1].returned.authStores[1].store.profiles[1].key = EnvOk
  /\ pass[1].returned.authStores[1].store.profiles[2].token = valueOf(FileOk)

-----------------------------------------------------------------------------
(* Resolved credentials are non-empty strings *)

nonBlankString(value) == value.t = "string" /\ ~blank(value.s)

\* a file reference whose pointer is in the payload with a value that is not
\* a string or is blank
badFileValue(ref) ==
  /\ isSecretRef(ref)
  /\ ref.source = "file"
  /\ trim(ref.id) \in DOMAIN Payload
  /\ ~nonBlankString(Payload[trim(ref.id)])

\* the reference field of the profile the walk resolves, if any
credentialRef(profile) ==
  CASE profile.type = "api_key" -> profile.keyRef
    [] profile.type = "token" -> profile.tokenRef
    [] OTHER -> Undefined

\* the field the walk writes the value to
credentialOf(profile) ==
  IF profile.type = "api_key" THEN profile.key ELSE profile.token

\* the reference of the last event of the log, when that is a resolve at a
\* provider or at a profile
lastResolved(ps) ==
  LET event == ps.log[Len(ps.log)] IN
  IF ps.log = <<>> \/ event.e # "resolve" THEN Undefined
  ELSE IF event.pc = "providers"
    THEN heap[ps.params.config].v.modelsProviders[event.i].apiKey
  ELSE IF event.pc = "profiles"
    THEN credentialRef(loadedStore(ps.candidateDirs[event.k]).profiles[event.i])
  ELSE Undefined

\* C19: a returned snapshot holds a string that is not blank in every
\* provider apiKey that was a reference and in every key or token whose
\* keyRef or tokenRef was a reference; a pass whose decrypt succeeded and that
\* met a file reference to a value that is not a string or is blank has failed
\* there, with InvalidResolvedValue at a provider and EmptyResolvedCredential
\* at a profile.
C19_ResolvedCredentialsNonEmpty ==
  \A p \in Passes :
    /\ pass[p].pc = "done" =>
         LET input == heap[pass[p].params.config].v
             out == pass[p].returned IN
         /\ \A n \in 1..Len(input.modelsProviders) :
              isSecretRef(input.modelsProviders[n].apiKey) =>
                nonBlankString(out.config.modelsProviders[n].apiKey)
         /\ \A k \in 1..Len(out.authStores) :
              LET loaded == loadedStore(out.authStores[k].agentDir) IN
              \A n \in 1..Len(loaded.profiles) :
                isSecretRef(credentialRef(loaded.profiles[n])) =>
                  nonBlankString(credentialOf(out.authStores[k].store.profiles[n]))
    /\ /\ pass[p].pc \notin {"idle", "off"}
       /\ ~pass[p].awaiting
       /\ context[p].fileSecretsPromise.state = "fulfilled"
       /\ badFileValue(lastResolved(pass[p]))
       => /\ pass[p].pc = "failed"
          /\ pass[p].error =
               IF pass[p].log[Len(pass[p].log)].pc = "providers"
                 THEN "InvalidResolvedValue" ELSE "EmptyResolvedCredential"

\* a pass has failed at a token profile whose tokenRef points at a blank
\* string of the decrypted payload, after a provider reference to the same
\* file had resolved
C19_Witness ==
  /\ pass[1].pc = "failed"
  /\ pass[1].error = "EmptyResolvedCredential"
  /\ context[1].fileSecretsPromise.state = "fulfilled"
  /\ lastResolved(pass[1]) = SecretRef("file", <<"W">>)
  /\ Len(pass[1].log) >= 3

-----------------------------------------------------------------------------
(* Candidate agent directories *)

resolvedDirs(agentDirs) ==
  [n \in 1..Len(agentDirs.list) |-> resolveUserPath(agentDirs.list[n])]

firstIndex(seq, x) == CHOOSE n \in 1..Len(seq) : seq[n] = x /\ \A m \in 1..(n - 1) : seq[m] # x

\* seq holds each directory of dirs once, in the order of first occurrence
distinctInOrder(seq, dirs) ==
  /\ {seq[n] : n \in 1..Len(seq)} = {dirs[n] : n \in 1..Len(dirs)}
  /\ \A m, n \in 1..Len(seq) :
       m < n => firstIndex(dirs, seq[m]) < firstIndex(dirs, seq[n])

\* C20: a pass given a list of agent directories, empty or not, has called the
\* loader once for each distinct directory of the list, in the order of first
\* occurrence, and for no other, and returns one auth store for each; a pass
\* given no list has done so for the discovered directories.
C20_ExplicitAgentDirs ==
  \A p \in Passes :
    pass[p].pc = "done" =>
      LET given == pass[p].params.agentDirs
          stores == pass[p].returned.authStores
          dirs == IF given.t = "array" THEN resolvedDirs(given)
                  ELSE collectCandidateAgentDirs(pass[p].returned.config) IN
      /\ distinctInOrder(loaderCalls[p], dirs)
      /\ [n \in 1..Len(stores) |-> stores[n].agentDir] = loaderCalls[p]

-----------------------------------------------------------------------------
(* References with an empty id *)

emptyIdCall(c) == c.ref.source \in {"env", "file"} /\ blank(c.ref.id)

\* C21: a call with an env or file reference whose id is empty after trimming
\* ends in its first step with InvalidReference, and that step reads no
\* environment variable, invokes no decrypt and leaves the context, its
\* fileSecretsPromise slot included, as it was.
C21_EmptyIdInvalid ==
  [][\A n \in DOMAIN calls :
       emptyIdCall(calls[n]) /\ calls'[n] # calls[n] =>
         /\ calls'[n].pc = "done"
         /\ calls'[n].result = Thrown("InvalidReference")
         /\ ~calls'[n].envRead
         /\ context' = context
         /\ decryptCalls' = decryptCalls]_vars

\* with a sops file source configured, a file reference with a blank id and
\* an env reference with an empty id have both failed, the cache slot unset
C21_Witness ==
  /\ heap[ConfigAddr].v.secretsSourcesFile = FileSource("sops")
  /\ Len(calls) >= 2
  /\ calls[1].ref = SecretRef("file", <<" ">>)
  /\ calls[1].result = Thrown("InvalidReference")
  /\ calls[2].ref = SecretRef("env", <<>>)
  /\ calls[2].result = Thrown("InvalidReference")
  /\ context[1].fileSecretsPromise = NoPromise
  /\ decryptCalls[1] = 0

-----------------------------------------------------------------------------
(* Frame of prepareSecretsRuntimeSnapshot on the process-wide state *)

\* the data of the process-wide state: the stored active snapshot and what
\* the two registries hold
processWide(h, active, config, stores) ==
  [active |-> IF active = NoAddr THEN Null ELSE deepSnapshot(h, active),
   config |-> IF config.config = NoAddr THEN Null ELSE h[config.config].v,
   sourceConfig |-> IF config.sourceConfig = NoAddr THEN Null
                    ELSE h[config.sourceConfig].v,
   authStores |-> IF stores = NoAddr THEN Null ELSE deepSeq(h, h[stores].v)]

\* C22: no step of a prepare pass, the returning and the failing one included,
\* changes the stored active snapshot, the config registry or the auth-store
\* registry, neither the objects they hold nor their data; every step that
\* changes them is an activate or a clear; getActive with nothing activated
\* returns absent whatever has been prepared.
C22_PrepareLeavesProcessState ==
  [][LET before == processWide(heap, activeSnapshot, runtimeConfigSnapshot,
                               runtimeAuthStoreSnapshots)
         after == processWide(heap', activeSnapshot', runtimeConfigSnapshot',
                              runtimeAuthStoreSnapshots')
         same == /\ after = before
                 /\ activeSnapshot' = activeSnapshot
                 /\ runtimeConfigSnapshot' = runtimeConfigSnapshot
                 /\ runtimeAuthStoreSnapshots' = runtimeAuthStoreSnapshots IN
     /\ pass' # pass => same
     /\ ~same => Activate \/ Clear
     /\ GetActive /\ lastActivated = Null => lastGet' = NoAddr]_vars

\* pass 2 has returned a snapshot that was never activated while the active
\* snapshot holds other data, those of the last activation
C22_Witness ==
  /\ pass[2].pc = "done"
  /\ pass[2].result # NoAddr
  /\ activeSnapshot # NoAddr
  /\ lastActivated # Null
  /\ deepSnapshot(heap, pass[2].result) = pass[2].returned
  /\ pass[2].returned # lastActivated
  /\ deepSnapshot(heap, activeSnapshot) = lastActivated

====
